---- MODULE Spec2Model ----
(***************************************************************************)
(* A model of polytrage: the resilient scan loop (bot.py), the retrying,   *)
(* permit-bounded fetch client (api.py) and the scanner (scanner.py)       *)
(* with the arbitrage evaluator (arbitrage.py).                            *)
(*                                                                         *)
(* Several specifications share the module; each one moves its own         *)
(* variables and leaves the others at their initial values:                *)
(*   LoopSpec / FairLoopSpec   run_scan_loop                               *)
(*   ClientSpec                concurrent PolymarketClient._request calls  *)
(*   FairClientSpec            the concurrent calls of a deep scan         *)
(*   ScanSpec                  one Scanner.scan() cycle                    *)
(*   FetchSpec / FairFetchSpec one fetch_all_active_markets() call         *)
(*   EvalSpec                  one call of an arbitrage evaluator variant  *)
(*   DecisionSpec              should_trade and alpha_extraction_check     *)
(*   KlSpec                    kl_divergence                               *)
(*   NotifySpec                a sequence of Notifier.notify_arb calls     *)
(*   StoreSpec                 a sequence of TradeStore.load/record calls  *)
(***************************************************************************)
EXTENDS Integers, Sequences, FiniteSets, TLC

VARIABLES
    \* ---- run_scan_loop (bot.py) ----
    lpc,                   \* position of the run_scan_loop coroutine
    once,                  \* the once argument
    interval,              \* the interval argument, in seconds
    paper,                 \* the paper argument (portfolio is created iff paper)
    notifier,              \* TRUE iff a notifier was passed in
    consecutive_failures,  \* bot.py:177
    backoff,               \* bot.py:178
    scans,                 \* number of scanner.scan() invocations so far
    scanReturned,          \* the scan of the current tick returned a ScanResult
    pending,               \* opportunities of the tick still to record / notify
    alerts,                \* number of circuit-breaker alerts emitted (bot.py:263)
    waitKind,              \* which sleep the loop entered last: none / backoff / interval
    waitLen,               \* its length
    clientRes,             \* fetch client's connection resource: none / open / closed
    notifierRes,           \* notifier's connection resource: none / open / closed
    exitPath,              \* how the loop left: none / once / halt / interrupt
    failures,              \* number of ticks so far that ended in the except clause
    opps_found,            \* len(result.opportunities) of the current tick
    scan_errors,           \* len(result.errors) of the current tick
    notified,              \* notify_arb calls made in the current tick
    heartbeat,             \* the errors field of the last heartbeat written, -1 before
    \* ---- PolymarketClient (api.py) ----
    rpc,                   \* position of each _request call
    attempt,               \* the loop variable attempt of each call (api.py:81)
    client_of,             \* the local variable client of each call (api.py:78)
    call_now,              \* the local variable now of a call inside _get_client
    last_error,            \* the local variable last_error of each call
    lastResp,              \* the last response each call received
    httpCalls,             \* number of client.get calls each call has issued
    waited,                \* the backoff sleeps each call has started, in order
    result,                \* the value a call returned (0: none)
    raised,                \* the exception a call raised: none / PolymarketAPIError / other
    cause,                 \* the __cause__ of that exception
    semaphore,             \* free permits of self._semaphore
    resources,             \* every connection resource created: open / closed
    cur,                   \* self._client: index into resources, 0 for None
    client_created_at,     \* self._client_created_at
    now,                   \* time.monotonic()
    \* ---- Scanner.scan (scanner.py) ----
    spc,                   \* position of the scan() coroutine
    use_orderbooks,        \* ScanConfig.use_orderbooks
    min_liquidity,         \* ScanConfig.min_liquidity, in dollars
    universeFailed,        \* fetch_all_active_markets raised in this cycle
    markets,               \* the list fetch_all_active_markets returns in this cycle
    markets_scanned,       \* ScanResult.markets_scanned
    candidates,            \* the markets that passed filter and pre-filter
    books,                 \* per candidate, per instrument: the fetch of its order book
    res,                   \* per candidate: what its _check_market task ended in
    opportunities,         \* ScanResult.opportunities
    errors,                \* ScanResult.errors
    bookFetches,           \* number of order-book fetches issued in this cycle
    \* ---- PolymarketClient.fetch_all_active_markets (api.py) ----
    fpc,                   \* position of the call: loop / returned / request_raised / parse_raised
    venue,                 \* the raw items of the venue's market listing
    max_markets,           \* the max_markets argument
    offset,                \* api.py:130
    all_markets,           \* api.py:129
    data,                  \* the raw page of the last listing request (api.py:113)
    batch,                 \* the markets parsed from it (api.py:133)
    pageRequests,          \* number of listing requests issued so far
    fetched,               \* the list the call returned
    \* ---- detect_arbitrage_from_* (arbitrage.py) ----
    epc,                   \* input / orderbooks / prices / midpoints: the variant applied
    market,                \* the market argument
    quotes,                \* the supplied best asks (0: an order book without asks)
    fee_rate,              \* the fee_rate argument, in percent
    min_profit,            \* the min_profit argument, in thousandths of a dollar
    opportunity,           \* what the call returned or raised
    \* ---- should_trade, alpha_extraction_check (profit.py) ----
    divergence,            \* the divergence argument, in hundredths
    gap,                   \* the gap argument, in hundredths
    alpha,                 \* the alpha argument, in tenths
    min_threshold,         \* the min_threshold argument, in hundredths
    trade,                 \* what should_trade returned: unset / yes / no
    extracted,             \* what alpha_extraction_check returned: unset / yes / no
    \* ---- kl_divergence (profit.py) ----
    mu,                    \* the mu argument, weights in quarters
    theta,                 \* the theta argument, weights in quarters
    kl,                    \* what the call returned or raised
    \* ---- Notifier.notify_arb (notify.py) ----
    npc,                   \* idle / sending: position of the notify_arb call
    on_arb,                \* settings.on_arb
    webhook,               \* TRUE iff settings.discord_webhook is set
    cooldown,              \* settings.cooldown
    wall,                  \* time.time()
    cooldowns,             \* Notifier._cooldowns, 0 for an absent key
    market_id,             \* the market_id argument of the call in progress
    calls,                 \* the notify_arb calls so far: market, time, outcome
    \* ---- TradeStore (storage.py) ----
    trades,                \* TradeStore._trades
    total_invested,        \* TradeStore._total_invested
    total_profit,          \* TradeStore._total_profit
    trade_count,           \* TradeStore._trade_count
    max_memory,            \* settings.max_memory
    storage_enabled,       \* settings.enabled
    trades_file,           \* the lines of settings.trades_file
    file_end,              \* absent / newline / cut: how that file ends
    journal,               \* every trade recorded or loaded so far, in order
    next_trade             \* identity of the next trade to be recorded

loopVars == <<lpc, once, interval, paper, notifier, consecutive_failures, backoff, scans,
              scanReturned, pending, alerts, waitKind, waitLen, clientRes,
              notifierRes, exitPath, failures, opps_found, scan_errors, notified,
              heartbeat>>

\* What the loop keeps of the current tick's ScanResult and of its reports.
tickVars == <<opps_found, scan_errors, notified, heartbeat>>

clientVars == <<rpc, attempt, client_of, call_now, last_error, lastResp,
                httpCalls, waited, result, raised, cause, semaphore, resources,
                cur, client_created_at, now>>

scanVars == <<spc, use_orderbooks, min_liquidity, universeFailed, markets, markets_scanned,
              candidates, books, res, opportunities, errors, bookFetches>>

fetchVars == <<fpc, venue, max_markets, offset, all_markets, data, batch,
               pageRequests, fetched>>

evalVars == <<epc, market, quotes, fee_rate, min_profit, opportunity>>

decisionVars == <<divergence, gap, alpha, min_threshold, trade, extracted>>

klVars == <<mu, theta, kl>>

notifyVars == <<npc, on_arb, webhook, cooldown, wall, cooldowns, market_id,
                calls>>

storeVars == <<trades, total_invested, total_profit, trade_count, max_memory,
               storage_enabled, trades_file, file_end, journal, next_trade>>

programVars == <<loopVars, clientVars, scanVars, fetchVars>>
libraryVars == <<evalVars, decisionVars, klVars, notifyVars, storeVars>>

vars == <<programVars, libraryVars>>

notLoopVars == <<clientVars, scanVars, fetchVars, libraryVars>>
notClientVars == <<loopVars, scanVars, fetchVars, libraryVars>>
notScanVars == <<loopVars, clientVars, fetchVars, libraryVars>>
notFetchVars == <<loopVars, clientVars, scanVars, libraryVars>>
notEvalVars == <<programVars, decisionVars, klVars, notifyVars, storeVars>>
notDecisionVars == <<programVars, evalVars, klVars, notifyVars, storeVars>>
notKlVars == <<programVars, evalVars, decisionVars, notifyVars, storeVars>>
notNotifyVars == <<programVars, evalVars, decisionVars, klVars, storeVars>>
notStoreVars == <<programVars, evalVars, decisionVars, klVars, notifyVars>>

Min(a, b) == IF a < b THEN a ELSE b

(***************************************************************************)
(* run_scan_loop                                                           *)
(***************************************************************************)
INITIAL_BACKOFF == 30
MAX_BACKOFF == 600
MAX_CONSECUTIVE_FAILURES == 10

\* Bound on the number of ticks explored.
MaxTicks == 12
\* Bound on the number of opportunities one ScanResult carries.
MaxOpps == 2
\* Bound on the number of errors one ScanResult carries.
MaxErrors == 1

\* bot.py:130: the interval arguments explored, the default of 60 seconds
\* among them.
Intervals == {1, 60}

\* The state of run_scan_loop when it is entered with the given arguments.
LoopStart(o, iv, p, n) ==
    /\ lpc = "startup"
    /\ once = o
    /\ interval = iv
    /\ paper = p
    /\ notifier = n
    /\ consecutive_failures = 0
    /\ backoff = INITIAL_BACKOFF
    /\ scans = 0
    /\ scanReturned = FALSE
    /\ pending = 0
    /\ alerts = 0
    /\ waitKind = "none"
    /\ waitLen = 0
    /\ clientRes = "none"
    /\ notifierRes = "none"
    /\ exitPath = "none"
    /\ failures = 0
    /\ opps_found = 0
    /\ scan_errors = 0
    /\ notified = 0
    /\ heartbeat = -1

(***************************************************************************)
(* PolymarketClient: constants and construction                            *)
(***************************************************************************)
MAX_RETRIES == 3
RETRY_BACKOFF == 1

\* Number of concurrent _request calls explored.
NumTasks == 2
\* The concurrency argument of the constructor (size of the permit pool).
Concurrency == 1
\* The client_refresh_interval argument of the constructor.
RefreshInterval == 1
\* Bound on the monotonic clock: it is followed until the age of a
\* resource created at time 0 reaches the refresh interval.
MaxTime == RefreshInterval
\* Number of distinct decoded bodies the service returns.
MaxBody == 1

Tasks == 1..NumTasks

NoResp == [kind |-> "none", code |-> 0, body |-> 0]

\* api.py:34-45: PolymarketClient.__init__, with NumTasks calls about to
\* be made.  made is the number of connection resources the client has
\* created before: 0 right after construction, 1 when an earlier call has
\* returned (scan() fetches the listing pages one after the other, api.py:
\* 127-138, before the concurrent per-outcome calls start), which left the
\* resource it created at time 0 open.
ClientAfter(made) ==
    /\ rpc = [t \in Tasks |-> "start"]
    /\ attempt = [t \in Tasks |-> 0]
    /\ client_of = [t \in Tasks |-> 0]
    /\ call_now = [t \in Tasks |-> 0]
    /\ last_error = [t \in Tasks |-> NoResp]
    /\ lastResp = [t \in Tasks |-> NoResp]
    /\ httpCalls = [t \in Tasks |-> 0]
    /\ waited = [t \in Tasks |-> << >>]
    /\ result = [t \in Tasks |-> 0]
    /\ raised = [t \in Tasks |-> "none"]
    /\ cause = [t \in Tasks |-> NoResp]
    /\ semaphore = Concurrency
    /\ resources = [i \in 1..made |-> "open"]
    /\ cur = made
    /\ client_created_at = 0
    /\ now = 0

ClientStart == ClientAfter(0)

(***************************************************************************)
(* Scanner: construction                                                   *)
(***************************************************************************)
\* scanner.py:50-56, 67: a Scanner with the given use_orderbooks and
\* min_liquidity settings at the start of scan(), with a fresh ScanResult;
\* listing is what the venue has for the universe fetch of this cycle.
ScanStart(u, ml, listing) ==
    /\ spc = "start"
    /\ use_orderbooks = u
    /\ min_liquidity = ml
    /\ universeFailed = FALSE
    /\ markets = listing
    /\ markets_scanned = 0
    /\ candidates = << >>
    /\ books = << >>
    /\ res = << >>
    /\ opportunities = << >>
    /\ errors = << >>
    /\ bookFetches = 0

\* api.py:127-131: fetch_all_active_markets(max_markets=mm) is entered, the
\* venue listing v.
FetchStart(v, mm) ==
    /\ fpc = "loop"
    /\ venue = v
    /\ max_markets = mm
    /\ offset = 0
    /\ all_markets = << >>
    /\ data = << >>
    /\ batch = << >>
    /\ pageRequests = 0
    /\ fetched = << >>

\* arbitrage.py:21-27, 51-57, 74-79: an evaluator variant is about to be
\* called with market m, supplied asks q, fee rate f and minimum profit mp.
EvalStart(m, q, f, mp) ==
    /\ epc = "input"
    /\ market = m
    /\ quotes = q
    /\ fee_rate = f
    /\ min_profit = mp
    /\ opportunity = [kind |-> "pending"]

\* profit.py:102-106, 129-135: the arguments of alpha_extraction_check and
\* should_trade.
DecisionStart(d, g, a, mt) ==
    /\ divergence = d
    /\ gap = g
    /\ alpha = a
    /\ min_threshold = mt
    /\ trade = "unset"
    /\ extracted = "unset"

\* profit.py:24: the arguments of kl_divergence.
KlStart(m, t) ==
    /\ mu = m
    /\ theta = t
    /\ kl = [kind |-> "pending", v |-> 0]

\* notify.py:24-27: Notifier.__init__ with the given settings, at time t.
NotifierStart(oa, hook, cd, t) ==
    /\ npc = "idle"
    /\ on_arb = oa
    /\ webhook = hook
    /\ cooldown = cd
    /\ wall = t
    /\ cooldowns = << >>
    /\ market_id = 0
    /\ calls = << >>

\* storage.py:50-55: TradeStore.__init__ with the given settings; f is the
\* content of the trades file and fe how the file ends.
StoreStart(en, mm, f, fe) ==
    /\ trades = << >>
    /\ total_invested = 0
    /\ total_profit = 0
    /\ trade_count = 0
    /\ max_memory = mm
    /\ storage_enabled = en
    /\ trades_file = f
    /\ file_end = fe
    /\ journal = << >>
    /\ next_trade = 1

\* The library functions and collaborators at rest.
EvalIdle == EvalStart(<< >>, << >>, 0, 0)
DecisionIdle == DecisionStart(0, 0, 0, 0)
KlIdle == KlStart(<< >>, << >>)
NotifierIdle == NotifierStart(FALSE, FALSE, 0, 0)
StoreIdle == StoreStart(FALSE, 0, << >>, "absent")

LibraryStart ==
    /\ EvalIdle
    /\ DecisionIdle
    /\ KlIdle
    /\ NotifierIdle
    /\ StoreIdle

\* The scan loop, the fetch client and the scanner at rest.
ProgramStart ==
    /\ LoopStart(FALSE, 60, FALSE, FALSE)
    /\ ClientStart
    /\ ScanStart(TRUE, 0, << >>)
    /\ FetchStart(<< >>, 0)

LoopInit ==
    /\ \E o \in BOOLEAN, iv \in Intervals, p \in BOOLEAN, n \in BOOLEAN :
          LoopStart(o, iv, p, n)
    /\ ClientStart
    /\ ScanStart(TRUE, 0, << >>)
    /\ FetchStart(<< >>, 0)
    /\ LibraryStart

\* aclose() of a connection resource that is open; close() skips a resource
\* that was never created or is already closed (api.py:72-74, notify.py:34-36).
Closed(state) == IF state = "open" THEN "closed" ELSE state

\* _get_client of either collaborator: create the resource when there is
\* none or it is closed.
Opened(state) == "open"

\* bot.py:261: the circuit-breaker test.
ReachedMaxOff(k) == k > MAX_CONSECUTIVE_FAILURES
ReachedMax(k) == k >= MAX_CONSECUTIVE_FAILURES

\* bot.py:277: the next backoff delay.
NextBackoffUncapped(b) == b * 2
NextBackoff(b) == Min(b * 2, MAX_BACKOFF)

\* bot.py:171-178: the startup notification, awaited before the try block.
\* notify_startup sends (and so creates the notifier's resource) only when
\* the webhook is configured and on_startup is set.
Startup ==
    /\ lpc = "startup"
    /\ \E sends \in BOOLEAN :
         IF notifier /\ sends
         THEN /\ notifierRes' = Opened(notifierRes)
              /\ lpc' = "startup_wait"
         ELSE /\ lpc' = "tick"
              /\ UNCHANGED notifierRes
    /\ UNCHANGED <<tickVars, failures, once, interval, paper, notifier, consecutive_failures, backoff, scans,
                   scanReturned, pending, alerts, waitKind, waitLen, clientRes,
                   exitPath>>
    /\ UNCHANGED notLoopVars

\* The webhook post of notify_startup completes (its failure is swallowed by
\* _send_embed, notify.py:71-78).
StartupSent ==
    /\ lpc = "startup_wait"
    /\ lpc' = "tick"
    /\ UNCHANGED <<tickVars, failures, once, interval, paper, notifier, consecutive_failures, backoff, scans,
                   scanReturned, pending, alerts, waitKind, waitLen, clientRes,
                   notifierRes, exitPath>>
    /\ UNCHANGED notLoopVars

\* An external interrupt while notify_startup is awaited: the await is
\* outside the try block (bot.py:172-175 vs 180), so no finally clause runs.
InterruptStartup ==
    /\ lpc = "startup_wait"
    /\ lpc' = "done"
    /\ exitPath' = "interrupt"
    /\ UNCHANGED <<tickVars, failures, once, interval, paper, notifier, consecutive_failures, backoff, scans,
                   scanReturned, pending, alerts, waitKind, waitLen, clientRes,
                   notifierRes>>
    /\ UNCHANGED notLoopVars

\* bot.py:181-189: a tick starts and invokes scanner.scan(); the scan's first
\* request creates the fetch client's connection resource.
StartScan ==
    /\ lpc = "tick"
    /\ scans < MaxTicks
    /\ scans' = scans + 1
    /\ scanReturned' = FALSE
    /\ pending' = 0
    /\ opps_found' = 0
    /\ scan_errors' = 0
    /\ notified' = 0
    /\ clientRes' = Opened(clientRes)
    /\ lpc' = "scanning"
    /\ UNCHANGED <<heartbeat, failures, once, interval, paper, notifier, consecutive_failures, backoff, alerts,
                   waitKind, waitLen, notifierRes, exitPath>>
    /\ UNCHANGED notLoopVars

\* bot.py:187-193: scanner.scan() returned a ScanResult with nopps
\* opportunities; the counter and the backoff are reset.
ScanReturns ==
    /\ lpc = "scanning"
    /\ \E nopps \in 0..MaxOpps, nerrs \in 0..MaxErrors :
         /\ opps_found' = nopps
         /\ scan_errors' = nerrs
         /\ pending' = IF paper THEN nopps ELSE 0
    /\ scanReturned' = TRUE
    /\ consecutive_failures' = 0
    /\ backoff' = INITIAL_BACKOFF
    /\ lpc' = "post"
    /\ UNCHANGED <<notified, heartbeat, failures, once, interval, paper, notifier, scans, alerts, waitKind, waitLen,
                   clientRes, notifierRes, exitPath>>
    /\ UNCHANGED notLoopVars

\* bot.py:253-278: the except clause of the tick.  When the breaker trips
\* and there is a notifier, notify_error is called: if it sends (webhook
\* configured, on_error set) _send_embed creates the notifier's resource and
\* the loop is suspended in the webhook post (notify.py:72-73); if it does
\* not, it returns without suspending and the loop breaks at once.
FailTick ==
    LET k == consecutive_failures + 1 IN
    /\ consecutive_failures' = k
    /\ failures' = failures + 1
    /\ pending' = 0
    /\ IF ReachedMax(k)
       THEN /\ alerts' = alerts + 1
            /\ exitPath' = "halt"
            /\ \E sends \in BOOLEAN :
                 IF notifier /\ sends
                 THEN /\ notifierRes' = Opened(notifierRes)
                      /\ lpc' = "notify_error"
                 ELSE /\ lpc' = "finally_client"
                      /\ UNCHANGED notifierRes
            /\ UNCHANGED <<waitKind, waitLen>>
       ELSE /\ lpc' = "backoff_sleep"
            /\ waitKind' = "backoff"
            /\ waitLen' = backoff
            /\ UNCHANGED <<alerts, exitPath, notifierRes>>
    /\ UNCHANGED <<tickVars, once, interval, paper, notifier, backoff, scans, scanReturned,
                   clientRes>>

\* scanner.scan() raised.
ScanRaises ==
    /\ lpc = "scanning"
    /\ FailTick
    /\ UNCHANGED notLoopVars

\* bot.py:200-223: one opportunity is recorded in the paper portfolio and
\* the trade journal, and reported to the notifier.  When notify_arb sends
\* (webhook configured, on_arb set, market cooled down) _send_embed creates
\* the notifier's resource and the loop is suspended in the webhook post
\* (notify.py:72-73); otherwise notify_arb returns without suspending.
RecordTrade ==
    /\ lpc = "post"
    /\ pending > 0
    /\ pending' = pending - 1
    /\ notified' = IF notifier THEN notified + 1 ELSE notified
    /\ \E sends \in BOOLEAN :
         IF notifier /\ sends
         THEN /\ notifierRes' = Opened(notifierRes)
              /\ lpc' = "notify_arb"
         ELSE UNCHANGED <<notifierRes, lpc>>
    /\ UNCHANGED <<opps_found, scan_errors, heartbeat, failures, once, interval, paper, notifier, consecutive_failures, backoff,
                   scans, scanReturned, alerts, waitKind, waitLen, clientRes,
                   exitPath>>
    /\ UNCHANGED notLoopVars

\* bot.py:217-223: the webhook post of notify_arb completes (its failure is
\* swallowed by _send_embed, notify.py:76-78) and the for loop goes on.
ArbSent ==
    /\ lpc = "notify_arb"
    /\ lpc' = "post"
    /\ UNCHANGED <<tickVars, failures, once, interval, paper, notifier, consecutive_failures, backoff, scans,
                   scanReturned, pending, alerts, waitKind, waitLen, clientRes,
                   notifierRes, exitPath>>
    /\ UNCHANGED notLoopVars

\* bot.py:195-251 lie inside the same try block as the scan: an exception of
\* the table display, store.record or write_heartbeat (health.py:44-47
\* re-raises) takes the except clause as well.
CollaboratorRaises ==
    /\ lpc = "post"
    /\ FailTick
    /\ UNCHANGED notLoopVars

\* bot.py:234-285: the heartbeat is written and the tick ends; with once the
\* loop breaks, otherwise it sleeps the interval.
FinishTick ==
    /\ lpc = "post"
    /\ pending = 0
    /\ heartbeat' = scan_errors
    /\ IF once
       THEN /\ lpc' = "finally_client"
            /\ exitPath' = "once"
            /\ UNCHANGED <<waitKind, waitLen>>
       ELSE /\ lpc' = "interval_sleep"
            /\ waitKind' = "interval"
            /\ waitLen' = interval
            /\ UNCHANGED exitPath
    /\ UNCHANGED <<opps_found, scan_errors, notified, failures, once, interval, paper, notifier, consecutive_failures, backoff, scans,
                   scanReturned, pending, alerts, clientRes, notifierRes>>
    /\ UNCHANGED notLoopVars

\* bot.py:276-278: the backoff sleep ends, the delay doubles, continue.
BackoffWake ==
    /\ lpc = "backoff_sleep"
    /\ backoff' = NextBackoff(backoff)
    /\ lpc' = "tick"
    /\ UNCHANGED <<tickVars, failures, once, interval, paper, notifier, consecutive_failures, scans,
                   scanReturned, pending, alerts, waitKind, waitLen, clientRes,
                   notifierRes, exitPath>>
    /\ UNCHANGED notLoopVars

\* bot.py:285: the interval sleep ends.
IntervalWake ==
    /\ lpc = "interval_sleep"
    /\ lpc' = "tick"
    /\ UNCHANGED <<tickVars, failures, once, interval, paper, notifier, consecutive_failures, backoff, scans,
                   scanReturned, pending, alerts, waitKind, waitLen, clientRes,
                   notifierRes, exitPath>>
    /\ UNCHANGED notLoopVars

\* bot.py:264-268: the webhook post of notify_error completes (its failure
\* is swallowed by _send_embed), then break.
AlertSent ==
    /\ lpc = "notify_error"
    /\ lpc' = "finally_client"
    /\ UNCHANGED <<tickVars, failures, once, interval, paper, notifier, consecutive_failures, backoff, scans,
                   scanReturned, pending, alerts, waitKind, waitLen, clientRes,
                   notifierRes, exitPath>>
    /\ UNCHANGED notLoopVars

\* An external interrupt at a suspension point inside the try block (the
\* scan, the webhook post of notify_arb or notify_error, either sleep): the
\* finally clause runs.
Interrupt ==
    /\ lpc \in {"scanning", "notify_arb", "notify_error", "backoff_sleep",
                "interval_sleep"}
    /\ lpc' = "finally_client"
    /\ exitPath' = "interrupt"
    /\ UNCHANGED <<tickVars, failures, once, interval, paper, notifier, consecutive_failures, backoff, scans,
                   scanReturned, pending, alerts, waitKind, waitLen, clientRes,
                   notifierRes>>
    /\ UNCHANGED notLoopVars

\* bot.py:291-292: finally: await client.close().
CloseClient ==
    /\ lpc = "finally_client"
    /\ clientRes' = Closed(clientRes)
    /\ lpc' = IF notifier THEN "finally_notifier" ELSE "done"
    /\ UNCHANGED <<tickVars, failures, once, interval, paper, notifier, consecutive_failures, backoff, scans,
                   scanReturned, pending, alerts, waitKind, waitLen,
                   notifierRes, exitPath>>
    /\ UNCHANGED notLoopVars

\* An external interrupt while client.close() is awaited inside the finally
\* clause: the client is marked closed, notifier.close() is not reached.
InterruptClose ==
    /\ lpc = "finally_client"
    /\ clientRes = "open"
    /\ clientRes' = Closed(clientRes)
    /\ lpc' = "done"
    /\ exitPath' = "interrupt"
    /\ UNCHANGED <<tickVars, failures, once, interval, paper, notifier, consecutive_failures, backoff, scans,
                   scanReturned, pending, alerts, waitKind, waitLen,
                   notifierRes>>
    /\ UNCHANGED notLoopVars

\* bot.py:293-294: finally: await notifier.close().
CloseNotifier ==
    /\ lpc = "finally_notifier"
    /\ notifierRes' = Closed(notifierRes)
    /\ lpc' = "done"
    /\ UNCHANGED <<tickVars, failures, once, interval, paper, notifier, consecutive_failures, backoff, scans,
                   scanReturned, pending, alerts, waitKind, waitLen, clientRes,
                   exitPath>>
    /\ UNCHANGED notLoopVars

\* An external interrupt while notifier.close() is awaited inside the
\* finally clause (it suspends in aclose() only when the resource is open,
\* notify.py:35-36): the resource is marked closed and the function ends
\* interrupted.
InterruptCloseNotifier ==
    /\ lpc = "finally_notifier"
    /\ notifierRes = "open"
    /\ notifierRes' = Closed(notifierRes)
    /\ lpc' = "done"
    /\ exitPath' = "interrupt"
    /\ UNCHANGED <<tickVars, failures, once, interval, paper, notifier, consecutive_failures, backoff, scans,
                   scanReturned, pending, alerts, waitKind, waitLen, clientRes>>
    /\ UNCHANGED notLoopVars

LoopNext ==
    \/ Startup
    \/ StartupSent
    \/ InterruptStartup
    \/ StartScan
    \/ ScanReturns
    \/ ScanRaises
    \/ RecordTrade
    \/ ArbSent
    \/ CollaboratorRaises
    \/ FinishTick
    \/ BackoffWake
    \/ IntervalWake
    \/ AlertSent
    \/ Interrupt
    \/ CloseClient
    \/ InterruptClose
    \/ CloseNotifier
    \/ InterruptCloseNotifier

LoopSpec == LoopInit /\ [][LoopNext]_vars

\* Every await of the loop completes or is interrupted: asyncio resumes a
\* coroutine whose awaited sleep, request or close has finished.
FairLoopSpec == LoopInit /\ [][LoopNext]_vars /\ WF_vars(LoopNext)

(***************************************************************************)
(* Claims about run_scan_loop                                              *)
(***************************************************************************)
HaltedPositions == {"notify_error", "finally_client", "finally_notifier", "done"}

\* C1: when the consecutive-failure counter reaches 10 the loop is Halted:
\* the circuit-breaker alert has been emitted exactly once, the loop is not
\* in (and never enters) the backoff sleep, the Scanner is not invoked
\* again, and the function finishes; the alert and the halt never happen
\* with fewer than 10 consecutive failures.
C1_CircuitBreaker ==
    /\ [](/\ consecutive_failures <= MAX_CONSECUTIVE_FAILURES
          /\ alerts <= 1
          /\ (alerts = 1) <=> (consecutive_failures = MAX_CONSECUTIVE_FAILURES)
          /\ (exitPath = "halt") => (consecutive_failures = MAX_CONSECUTIVE_FAILURES)
          /\ (consecutive_failures = MAX_CONSECUTIVE_FAILURES)
                => lpc \in HaltedPositions)
    /\ [][(consecutive_failures = MAX_CONSECUTIVE_FAILURES)
            => /\ scans' = scans
               /\ alerts' = alerts
               /\ waitKind' = waitKind
               /\ consecutive_failures' = consecutive_failures]_vars
    /\ (consecutive_failures = MAX_CONSECUTIVE_FAILURES) ~> (lpc = "done")

\* A run that succeeded once, then failed 10 times in a row and halted.
C1_Witness ==
    /\ lpc = "done"
    /\ exitPath = "halt"
    /\ alerts = 1
    /\ scans = MAX_CONSECUTIVE_FAILURES + 1

\* C2: after any tick on which the Scanner returned, the consecutive-failure
\* counter is 0 and the backoff delay is 30.
C2_ResetWheneverScannerReturned ==
    scanReturned => (consecutive_failures = 0 /\ backoff = INITIAL_BACKOFF)

\* C3: at the start of every tick the backoff delay is min(30 * 2^k, 600)
\* for k the consecutive-failure count; the delay stays within [30, 600];
\* a failed tick is followed by a wait of exactly the backoff delay that was
\* current when it failed, and not by the interval wait.
C3_BackoffSchedule ==
    /\ INITIAL_BACKOFF <= backoff /\ backoff <= MAX_BACKOFF
    /\ (lpc = "tick") =>
          backoff = Min(INITIAL_BACKOFF * 2^consecutive_failures, MAX_BACKOFF)
    /\ (lpc = "backoff_sleep") => (waitKind = "backoff" /\ waitLen = backoff)
    /\ (lpc = "tick" /\ consecutive_failures > 0) =>
          /\ waitKind = "backoff"
          /\ waitLen = Min(INITIAL_BACKOFF * 2^(consecutive_failures - 1),
                           MAX_BACKOFF)

\* The seventh consecutive failure is about to be retried: the delay has
\* reached the cap.
C3_Witness ==
    /\ lpc = "tick"
    /\ consecutive_failures = 6
    /\ backoff = MAX_BACKOFF
    /\ waitLen = MAX_BACKOFF

\* C4: with once set the Scanner is invoked exactly once, and the loop
\* returns after that tick whether it succeeded or failed.
C4_OnceSingleScan ==
    once => /\ scans <= 1
            /\ (lpc = "done" /\ exitPath # "interrupt") => scans = 1

\* C5: when run_scan_loop has finished, on whatever exit path, neither the
\* fetch client's nor the notifier's connection resource is open.
C5_ResourcesReleased ==
    (lpc = "done") => (clientRes # "open" /\ notifierRes # "open")

\* C29: the consecutive-failure counter is incremented, and the backoff
\* path taken, only when the Scanner invocation itself raised; a failure of
\* a collaborator call made after a successful scan (table display, trade
\* journal, notifier, heartbeat write) is not counted as a scan failure.
C29_OnlyScannerFailuresCounted ==
    [][(\/ consecutive_failures' > consecutive_failures
        \/ failures' > failures
        \/ (lpc' = "backoff_sleep" /\ lpc # "backoff_sleep"))
          => (lpc = "scanning" /\ ~scanReturned)]_vars

\* C30: if every tick so far ended in the failure path, the loop is Halted
\* after exactly 10 ticks: it never starts an eleventh tick, and when the
\* tenth has failed the circuit breaker has tripped.
C30_AllFailingHaltsAtTen ==
    (failures = scans) =>
        /\ scans <= MAX_CONSECUTIVE_FAILURES
        /\ (scans = MAX_CONSECUTIVE_FAILURES) =>
              (lpc \in HaltedPositions /\ alerts = 1)

\* The tick whose scan returned is over: the loop sleeps before the next
\* tick, or has left through the once break or the circuit breaker.
TickOver ==
    \/ lpc \in {"interval_sleep", "backoff_sleep"}
    \/ exitPath \in {"once", "halt"}

\* C31: a tick whose ScanResult carries errors is a successful tick: after
\* it the failure counter is 0 and the backoff delay 30, the heartbeat has
\* been written with the error count, the wait before the next tick is the
\* normal interval, and the loop is not halted, however many such ticks
\* came before.
C31_ScanErrorsAreNotFailures ==
    (scanReturned /\ scan_errors > 0 /\ TickOver) =>
        /\ consecutive_failures = 0
        /\ backoff = INITIAL_BACKOFF
        /\ heartbeat = scan_errors
        /\ lpc # "backoff_sleep"
        /\ exitPath # "halt"

\* C32: on every successful tick that found opportunities the loop reports
\* each opportunity to the notifier's arbitrage-found event when a notifier
\* is present, whether or not paper trading is enabled.
C32_EveryOpportunityNotified ==
    (notifier /\ scanReturned /\ (lpc = "interval_sleep" \/ exitPath = "once"))
        => notified = opps_found

(***************************************************************************)
(* PolymarketClient._get_client, _request, close                           *)
(***************************************************************************)
Status(c, b) == [kind |-> "status", code |-> c, body |-> b]
Failure(k) == [kind |-> k, code |-> 0, body |-> 0]

\* What awaiting client.get can end in: a 200 response whose body decodes to
\* the JSON value b > 0 or does not decode (b = 0), a client error, a server
\* error, or an httpx.RequestError (a transport failure or a time-out:
\* httpx.TimeoutException is a RequestError, and api.py:87 treats both alike).
Responses ==
    {Status(200, b) : b \in 0..MaxBody}
        \cup {Status(404, 0), Status(503, 0), Failure("request_error")}

\* api.py:85: raise_for_status() passes.
IsSuccess(r) == r.kind = "status" /\ r.code >= 200 /\ r.code < 300

\* api.py:89: an HTTPStatusError whose status code is below 500.
IsClientErrorNever(r) == FALSE
IsClientError(r) == r.kind = "status" /\ ~IsSuccess(r) /\ r.code < 500

\* api.py:86: resp.json() decodes the body.
Decodable(r) == r.body > 0

\* api.py:93: wait = RETRY_BACKOFF * (2 ** attempt).
BackoffWait(a) == RETRY_BACKOFF * 2^a

\* api.py:81: for attempt in range(MAX_RETRIES): is there an iteration after
\* iteration a?
MoreAttemptsOffByOne(a) == a + 1 <= MAX_RETRIES
MoreAttempts(a) == a + 1 < MAX_RETRIES

\* api.py:82: async with self._semaphore: acquire suspends while no permit
\* is free; leaving the block, on any path, gives the permit back.
CanAcquireAlways(s) == TRUE
CanAcquire(s) == s > 0
ReleaseForgotten(s) == s
Release(s) == s + 1

RECURSIVE ReleaseAll(_, _)
ReleaseAll(s, n) == IF n = 0 THEN s ELSE ReleaseAll(Release(s), n - 1)

\* api.py:49-54: needs_refresh, evaluated with the local now n.
NeedsRefresh(n) ==
    /\ cur # 0
    /\ resources[cur] = "open"
    /\ RefreshInterval > 0
    /\ (n - client_created_at) >= RefreshInterval

Finished(t) == rpc[t] \in {"returned", "raised", "cancelled"}

\* The local variables attempt, client, now and last_error of a call cease
\* to exist when the call returns, raises or is cancelled.
DropLocals(f, t) == [f EXCEPT ![t] = 0]
DropError(f, t) == [f EXCEPT ![t] = NoResp]
HoldsPermit(t) == rpc[t] \in {"inflight", "sleep"}

\* api.py:47-70 and 78: _request obtains the connection resource.  An aged
\* resource is closed first: aclose() marks it closed at once and is then
\* awaited (api.py:57).  Otherwise a resource is created when there is none
\* or the current one is closed.
GetClient(t) ==
    /\ rpc[t] = "start"
    /\ IF NeedsRefresh(now)
       THEN /\ resources' = [resources EXCEPT ![cur] = "closed"]
            /\ call_now' = [call_now EXCEPT ![t] = now]
            /\ rpc' = [rpc EXCEPT ![t] = "refreshing"]
            /\ UNCHANGED <<cur, client_created_at, client_of>>
       ELSE /\ IF cur = 0 \/ resources[cur] = "closed"
               THEN /\ resources' = Append(resources, "open")
                    /\ cur' = Len(resources) + 1
                    /\ client_created_at' = now
               ELSE UNCHANGED <<resources, cur, client_created_at>>
            /\ client_of' = [client_of EXCEPT ![t] = cur']
            /\ rpc' = [rpc EXCEPT ![t] = "acquire"]
            /\ UNCHANGED call_now
    /\ UNCHANGED <<attempt, last_error, lastResp, httpCalls, waited, result,
                   raised, cause, semaphore, now>>
    /\ UNCHANGED notClientVars

\* api.py:57-70: the awaited aclose() is over: self._client = None, then a
\* new resource is created and stamped with the now read before the await.
RefreshDone(t) ==
    /\ rpc[t] = "refreshing"
    /\ resources' = Append(resources, "open")
    /\ cur' = Len(resources) + 1
    /\ client_created_at' = call_now[t]
    /\ client_of' = [client_of EXCEPT ![t] = Len(resources) + 1]
    /\ call_now' = [call_now EXCEPT ![t] = 0]
    /\ rpc' = [rpc EXCEPT ![t] = "acquire"]
    /\ UNCHANGED <<attempt, last_error, lastResp, httpCalls, waited, result,
                   raised, cause, semaphore, now>>
    /\ UNCHANGED notClientVars

\* The call leaves _request (it returns, raises or is cancelled).
Exit(t, how) ==
    /\ rpc' = [rpc EXCEPT ![t] = how]
    /\ attempt' = DropLocals(attempt, t)
    /\ client_of' = DropLocals(client_of, t)
    /\ call_now' = DropLocals(call_now, t)
    /\ last_error' = DropError(last_error, t)

\* api.py:82-84: a permit is taken and client.get is called.  A resource
\* that has been closed refuses to send (RuntimeError, not caught by
\* api.py:87): the call leaves the async with block and raises.
Acquire(t) ==
    /\ rpc[t] = "acquire"
    /\ CanAcquire(semaphore)
    /\ IF resources[client_of[t]] = "closed"
       THEN /\ semaphore' = Release(semaphore - 1)
            /\ raised' = [raised EXCEPT ![t] = "other"]
            /\ Exit(t, "raised")
            /\ UNCHANGED httpCalls
       ELSE /\ semaphore' = semaphore - 1
            /\ rpc' = [rpc EXCEPT ![t] = "inflight"]
            /\ httpCalls' = [httpCalls EXCEPT ![t] = @ + 1]
            /\ UNCHANGED <<raised, attempt, client_of, call_now, last_error>>
    /\ UNCHANGED <<lastResp, waited, result, cause, resources, cur,
                   client_created_at, now>>
    /\ UNCHANGED notClientVars

\* api.py:84-98: the awaited client.get ends in r.
Respond(t, r) ==
    /\ rpc[t] = "inflight"
    /\ lastResp' = [lastResp EXCEPT ![t] = r]
    /\ IF IsSuccess(r)
       THEN IF Decodable(r)
            THEN \* api.py:86: return resp.json()
                 /\ result' = [result EXCEPT ![t] = r.body]
                 /\ semaphore' = Release(semaphore)
                 /\ Exit(t, "returned")
                 /\ UNCHANGED <<raised, cause, waited>>
            ELSE \* resp.json() raises a ValueError, which api.py:87 does
                 \* not catch
                 /\ raised' = [raised EXCEPT ![t] = "other"]
                 /\ semaphore' = Release(semaphore)
                 /\ Exit(t, "raised")
                 /\ UNCHANGED <<result, cause, waited>>
       ELSE IF IsClientError(r)
            THEN \* api.py:88-92: raise PolymarketAPIError(...) from exc
                 /\ raised' = [raised EXCEPT ![t] = "PolymarketAPIError"]
                 /\ cause' = [cause EXCEPT ![t] = r]
                 /\ semaphore' = Release(semaphore)
                 /\ Exit(t, "raised")
                 /\ UNCHANGED <<result, waited>>
            ELSE \* api.py:88, 93-98: last_error = exc, then
                 \* await asyncio.sleep(wait) inside the async with block
                 /\ last_error' = [last_error EXCEPT ![t] = r]
                 /\ waited' = [waited EXCEPT
                                 ![t] = Append(@, BackoffWait(attempt[t]))]
                 /\ rpc' = [rpc EXCEPT ![t] = "sleep"]
                 /\ UNCHANGED <<result, raised, cause, semaphore, attempt,
                                client_of, call_now>>
    /\ UNCHANGED <<httpCalls, resources, cur, client_created_at, now>>
    /\ UNCHANGED notClientVars

\* api.py:98-102: the backoff sleep is over: the async with block is left,
\* and either the next iteration starts or the loop is exhausted and
\* PolymarketAPIError is raised from last_error.
Wake(t) ==
    /\ rpc[t] = "sleep"
    /\ semaphore' = Release(semaphore)
    /\ IF MoreAttempts(attempt[t])
       THEN /\ attempt' = [attempt EXCEPT ![t] = @ + 1]
            /\ rpc' = [rpc EXCEPT ![t] = "acquire"]
            /\ UNCHANGED <<raised, cause, client_of, call_now, last_error>>
       ELSE /\ raised' = [raised EXCEPT ![t] = "PolymarketAPIError"]
            /\ cause' = [cause EXCEPT ![t] = last_error[t]]
            /\ Exit(t, "raised")
    /\ UNCHANGED <<lastResp, httpCalls, waited, result, resources, cur,
                   client_created_at, now>>
    /\ UNCHANGED notClientVars

\* The awaiting scan is cancelled (an external interrupt unwinds the scan
\* loop): asyncio.CancelledError is thrown into every call that has not
\* finished, at its suspension point, and each async with block that is
\* left gives its permit back.
CancelAll ==
    /\ \E t \in Tasks : ~Finished(t)
    /\ semaphore' = ReleaseAll(semaphore,
                               Cardinality({t \in Tasks : HoldsPermit(t)}))
    /\ rpc' = [t \in Tasks |-> IF Finished(t) THEN rpc[t] ELSE "cancelled"]
    /\ attempt' = [t \in Tasks |-> 0]
    /\ client_of' = [t \in Tasks |-> 0]
    /\ call_now' = [t \in Tasks |-> 0]
    /\ last_error' = [t \in Tasks |-> NoResp]
    /\ UNCHANGED <<lastResp, httpCalls, waited, result, raised, cause,
                   resources, cur, client_created_at, now>>
    /\ UNCHANGED notClientVars

\* time.monotonic() advances.  The clock is read by _get_client only
\* (api.py:48), so time that passes after the last call has read it is not
\* observable and is left out.
Tick ==
    /\ now < MaxTime
    /\ \E t \in Tasks : rpc[t] = "start"
    /\ now' = now + 1
    /\ UNCHANGED <<rpc, attempt, client_of, call_now, last_error, lastResp,
                   httpCalls, waited, result, raised, cause, semaphore,
                   resources, cur, client_created_at>>
    /\ UNCHANGED notClientVars

\* api.py:72-74: close() marks the current resource closed when it is open
\* (self._client is kept).  Nothing makes it wait for the calls: run_scan_loop
\* calls it in its finally clause as soon as scan() has unwound, which can be
\* while a request of a sibling call is still in flight (the gather of
\* api.py:165-177 re-raises the first failure and leaves the other requests
\* running).
Close ==
    /\ cur # 0
    /\ resources[cur] = "open"
    /\ resources' = [resources EXCEPT ![cur] = "closed"]
    /\ UNCHANGED <<rpc, attempt, client_of, call_now, last_error, lastResp,
                   httpCalls, waited, result, raised, cause, semaphore, cur,
                   client_created_at, now>>
    /\ UNCHANGED notClientVars

ClientInit ==
    /\ \E made \in 0..1 : ClientAfter(made)
    /\ LoopStart(FALSE, 60, FALSE, FALSE)
    /\ ScanStart(TRUE, 0, << >>)
    /\ FetchStart(<< >>, 0)
    /\ LibraryStart

ClientNext ==
    \/ \E t \in Tasks : GetClient(t)
    \/ \E t \in Tasks : RefreshDone(t)
    \/ \E t \in Tasks : Acquire(t)
    \/ \E t \in Tasks, r \in Responses : Respond(t, r)
    \/ \E t \in Tasks : Wake(t)
    \/ CancelAll
    \/ Tick
    \/ Close

ClientSpec == ClientInit /\ [][ClientNext]_vars

\* The steps of call t that the event loop takes by itself.
CallStep(t) ==
    \/ GetClient(t)
    \/ RefreshDone(t)
    \/ Acquire(t)
    \/ \E r \in Responses : Respond(t, r)
    \/ Wake(t)

\* Every HTTP request eventually completes or times out, every sleep and
\* every aclose() ends, and asyncio resumes a coroutine that can run: a
\* call that can take a step eventually takes one.  Nothing obliges the
\* scan to be cancelled, the clock to advance or close() to be called.
\*
\* scanner.py:67-84, 137-147: the concurrent calls of a deep scan start
\* after the listing has been fetched, on a client whose earlier call has
\* left a resource open.
DeepScanInit ==
    /\ ClientAfter(1)
    /\ LoopStart(FALSE, 60, FALSE, FALSE)
    /\ ScanStart(TRUE, 0, << >>)
    /\ FetchStart(<< >>, 0)
    /\ LibraryStart

DeepScanNext ==
    \/ \E t \in Tasks : GetClient(t)
    \/ \E t \in Tasks : RefreshDone(t)
    \/ \E t \in Tasks : Acquire(t)
    \/ \E t \in Tasks, r \in Responses : Respond(t, r)
    \/ \E t \in Tasks : Wake(t)
    \/ Tick

FairClientSpec ==
    DeepScanInit /\ [][DeepScanNext]_vars
        /\ WF_vars(\E t \in Tasks : CallStep(t))

(***************************************************************************)
(* Claims about PolymarketClient._request                                  *)
(***************************************************************************)
InFlight == {t \in Tasks : rpc[t] = "inflight"}
Is4xx(r) == r.kind = "status" /\ r.code >= 400 /\ r.code <= 499
Is2xx(r) == r.kind = "status" /\ r.code >= 200 /\ r.code <= 299
Retryable(r) == r.kind = "request_error" \/ (r.kind = "status" /\ r.code >= 500)

\* C6: the number of HTTP requests in flight never exceeds the size of the
\* permit pool, and the pool never hands out a permit it does not have.
C6_InFlightBounded ==
    /\ Cardinality(InFlight) <= Concurrency
    /\ semaphore >= 0

\* Every permit is in use by a request in flight while another call is
\* suspended waiting for one.
C6_Witness ==
    /\ Cardinality(InFlight) = Concurrency
    /\ semaphore = 0
    /\ \E t \in Tasks : rpc[t] = "acquire"

\* C7: a call issues at most 3 HTTP requests; a call that returned has
\* returned the decoded body of a successful response; a retryable failure
\* (5xx, transport failure, time-out) ends the call with PolymarketAPIError
\* only when it was the third, and that error then wraps this last failure;
\* every failure before it was followed by a backoff wait and a retry.
C7_RetryPolicy ==
    \A t \in Tasks :
        /\ httpCalls[t] <= MAX_RETRIES
        /\ (rpc[t] = "returned") =>
              /\ Is2xx(lastResp[t])
              /\ result[t] = lastResp[t].body
              /\ result[t] # 0
              /\ Len(waited[t]) = httpCalls[t] - 1
        /\ (rpc[t] = "raised" /\ raised[t] = "PolymarketAPIError"
              /\ Retryable(lastResp[t])) =>
              /\ httpCalls[t] = MAX_RETRIES
              /\ cause[t] = lastResp[t]
        /\ (httpCalls[t] = MAX_RETRIES /\ Retryable(lastResp[t])
              /\ rpc[t] = "raised") =>
              raised[t] = "PolymarketAPIError"

\* One call returned on its third attempt, another failed three times, the
\* last failure differing from the one before.
C7_Witness ==
    /\ \E t \in Tasks :
          rpc[t] = "returned" /\ httpCalls[t] = MAX_RETRIES
    /\ \E t \in Tasks :
          /\ rpc[t] = "raised"
          /\ httpCalls[t] = MAX_RETRIES
          /\ raised[t] = "PolymarketAPIError"
          /\ cause[t] = Failure("request_error")

\* C8: a client-error response ends the call at that attempt: the call has
\* raised PolymarketAPIError wrapping that response, has issued no further
\* request and has started no backoff wait after it.
C8_ClientErrorNotRetried ==
    \A t \in Tasks :
        Is4xx(lastResp[t]) =>
            /\ rpc[t] = "raised"
            /\ raised[t] = "PolymarketAPIError"
            /\ cause[t] = lastResp[t]
            /\ Len(waited[t]) = httpCalls[t] - 1

\* A call whose second attempt was answered 404, after one backoff wait.
C8_Witness ==
    \E t \in Tasks :
        /\ Is4xx(lastResp[t])
        /\ httpCalls[t] = 2
        /\ waited[t] = <<RETRY_BACKOFF>>
        /\ rpc[t] = "raised"

\* C9: the free permits and the permits held by calls inside the async with
\* block always add up to the pool size, so once every call has finished
\* (returned, raised or cancelled) all permits are free again.
C9_PermitsReleased ==
    /\ semaphore + Cardinality({t \in Tasks : HoldsPermit(t)}) = Concurrency
    /\ (\A t \in Tasks : Finished(t)) => semaphore = Concurrency

\* All calls have finished, one of them by an exception and one of them by
\* cancellation, after having held a permit.
C9_Witness ==
    /\ \A t \in Tasks : Finished(t) /\ httpCalls[t] > 0
    /\ \E t \in Tasks : rpc[t] = "raised"
    /\ \E t \in Tasks : rpc[t] = "cancelled"
    /\ semaphore = Concurrency

\* C33: within one call the backoff waits occur only between attempts: the
\* waits of a call are 1 before the second attempt and 2 before the third,
\* and no wait follows the failure of the third attempt.
C33_BackoffOnlyBetweenAttempts ==
    \A t \in Tasks :
        /\ Len(waited[t]) <= MAX_RETRIES - 1
        /\ \A i \in 1..Len(waited[t]) : waited[t][i] = RETRY_BACKOFF * 2^(i - 1)
        /\ (rpc[t] = "sleep") => (attempt[t] + 1 < MAX_RETRIES)

\* C34: a call holds a permit only while its HTTP request is in flight: the
\* permits missing from the pool are those of the requests in flight, and a
\* call waiting out a retry backoff keeps no other call from acquiring.
C34_PermitOnlyWhileInFlight ==
    /\ semaphore + Cardinality(InFlight) = Concurrency
    /\ (InFlight = {} /\ \E t \in Tasks : rpc[t] = "sleep") => CanAcquire(semaphore)

\* api.py:49-54, 60: the age of the current resource has reached the
\* refresh interval.
Aged == (now - client_created_at) >= RefreshInterval

\* C35: a connection resource is created only by a call obtaining it, and
\* only on first use, when the current resource is closed or when its age
\* has reached the refresh interval; a call that finds an open resource
\* younger than the refresh interval reuses it and creates none.
C35_LazyResourceCreation ==
    [][/\ (Len(resources') > Len(resources)) =>
             /\ \E t \in Tasks :
                   rpc[t] \in {"start", "refreshing"} /\ rpc'[t] = "acquire"
             /\ (cur = 0 \/ resources[cur] = "closed" \/ Aged)
       /\ \A t \in Tasks :
             (/\ rpc[t] = "start" /\ rpc'[t] = "acquire"
              /\ cur # 0 /\ resources[cur] = "open" /\ ~Aged) =>
                 (resources' = resources /\ client_of'[t] = cur)]_vars

\* C37: no HTTP request is issued on a connection resource that has been
\* closed: whenever a call that has taken a permit goes on to client.get,
\* the resource it obtained earlier is still open.
C37_NoRequestOnClosedResource ==
    [][\A t \in Tasks :
          (rpc[t] = "acquire" /\ rpc'[t] \in {"inflight", "raised"}) =>
              resources[client_of[t]] = "open"]_vars

OpenResources == {i \in DOMAIN resources : resources[i] = "open"}

\* C38: the client has at most one open connection resource at a time, and
\* when close() has completed every resource the client created is closed.
C38_OneResourceNoneLeaked ==
    [][/\ Cardinality(OpenResources') <= 1
       /\ Close => (OpenResources' = {})]_vars

\* C40: the concurrent calls always complete: whatever the number of calls
\* above the pool size and whatever the mix of successes, retries and
\* failures, every call eventually returns, raises or is cancelled, and stays
\* finished; no call waits for a permit for ever.
C40_EveryCallFinishes == <>[](\A t \in Tasks : Finished(t))

\* More calls than permits were made, none was cancelled, every call sent
\* at least one request, and one of them went through its retries while
\* the pool was empty.
C40_Witness ==
    /\ NumTasks > Concurrency
    /\ \A t \in Tasks : rpc[t] \in {"returned", "raised"} /\ httpCalls[t] > 0
    /\ \E t \in Tasks : httpCalls[t] = MAX_RETRIES /\ rpc[t] = "returned"
    /\ semaphore = Concurrency

(***************************************************************************)
(* Arbitrage evaluator (arbitrage.py).  Prices are in thousandths of a     *)
(* dollar, the fee rate in percent, net profit in 1/100000 dollar and ROI  *)
(* in 1/10000 percent: the decimal numbers the program reads and reports.  *)
(***************************************************************************)
\* arbitrage.py:121: the $1.00 payout.
PAYOUT == 1000
\* scanner.py:24: ScanConfig.fee_rate = 0.02.
FEE_PCT == 2
\* scanner.py:23: ScanConfig.min_profit = 0.005.
MIN_PROFIT == 5
\* scanner.py:133: the pre-filter ceiling 1.02.
PREFILTER_CEILING == 1020
\* scanner.py:26: the min_liquidity settings explored, the default of 0.0
\* among them.
Liquidities == {0, 100}
\* scanner.py:27: ScanConfig.min_volume = 0.0.
min_volume == 0

\* The sum of decimal prices given in thousandths, as an exact integer.
RECURSIVE SumSeq(_)
SumSeq(q) == IF q = << >> THEN 0 ELSE Head(q) + SumSeq(Tail(q))

(***************************************************************************)
(* Binary floating point.  The evaluator and the pre-filter compute with   *)
(* Python floats (IEEE 754 doubles, every operation rounded to the nearest *)
(* double, a tie to the even mantissa).  A double is held as its mantissa  *)
(* m, a natural number below 2^53, and its exponent e: the value m * 2^e.  *)
(* Naturals beyond the integer range are sequences of limbs base 2^15,     *)
(* least significant first, without leading zero limb.                     *)
(***************************************************************************)
\* The bits of a limb and of the mantissa of a double.
LIMB_BITS == 15
MANT_BITS == 53
LIMB == 2^LIMB_BITS

RECURSIVE Trim(_)
Trim(a) ==
    IF a = << >> THEN a
    ELSE IF a[Len(a)] = 0 THEN Trim(SubSeq(a, 1, Len(a) - 1)) ELSE a

RECURSIVE BigOf(_)
BigOf(n) == IF n = 0 THEN << >> ELSE <<n % LIMB>> \o BigOf(n \div LIMB)

RECURSIVE IntOf(_)
IntOf(a) == IF a = << >> THEN 0 ELSE Head(a) + LIMB * IntOf(Tail(a))

RECURSIVE AddCarry(_, _, _)
AddCarry(a, b, c) ==
    IF a = << >> /\ b = << >> THEN (IF c = 0 THEN << >> ELSE <<c>>)
    ELSE LET x == IF a = << >> THEN 0 ELSE Head(a)
             y == IF b = << >> THEN 0 ELSE Head(b)
             s == x + y + c
         IN  <<s % LIMB>> \o AddCarry(IF a = << >> THEN a ELSE Tail(a),
                                      IF b = << >> THEN b ELSE Tail(b),
                                      s \div LIMB)
BigAdd(a, b) == AddCarry(a, b, 0)

\* a - b for a >= b.
RECURSIVE SubBorrow(_, _, _)
SubBorrow(a, b, c) ==
    IF a = << >> THEN << >>
    ELSE LET y == IF b = << >> THEN 0 ELSE Head(b)
             d == Head(a) - y - c
         IN  <<(d + LIMB) % LIMB>> \o SubBorrow(Tail(a),
                                               IF b = << >> THEN b ELSE Tail(b),
                                               IF d < 0 THEN 1 ELSE 0)
BigSub(a, b) == Trim(SubBorrow(a, b, 0))

RECURSIVE CmpFrom(_, _, _)
CmpFrom(a, b, i) ==
    IF i = 0 THEN 0
    ELSE IF a[i] > b[i] THEN 1
    ELSE IF a[i] < b[i] THEN -1
    ELSE CmpFrom(a, b, i - 1)
\* -1, 0 or 1 as a is below, equal to or above b.
BigCmp(a, b) ==
    IF Len(a) > Len(b) THEN 1
    ELSE IF Len(a) < Len(b) THEN -1
    ELSE CmpFrom(a, b, Len(a))

\* a * k for 0 <= k <= LIMB.
RECURSIVE TimesCarry(_, _, _)
TimesCarry(a, k, c) ==
    IF a = << >> THEN BigOf(c)
    ELSE LET p == Head(a) * k + c
         IN  <<p % LIMB>> \o TimesCarry(Tail(a), k, p \div LIMB)
BigTimes(a, k) == IF k = 0 THEN << >> ELSE TimesCarry(a, k, 0)

RECURSIVE BigMul(_, _)
BigMul(a, b) ==
    IF a = << >> \/ b = << >> THEN << >>
    ELSE BigAdd(BigTimes(a, Head(b)),
                IF Tail(b) = << >> THEN << >> ELSE <<0>> \o BigMul(a, Tail(b)))

\* Short division of the limbs a[1..i] with the remainder r carried down
\* from the limbs above, by 0 < k <= LIMB.
RECURSIVE ShortDiv(_, _, _, _)
ShortDiv(a, i, r, k) ==
    IF i = 0 THEN [q |-> << >>, r |-> r]
    ELSE LET top == r * LIMB + a[i]
             low == ShortDiv(a, i - 1, top % k, k)
         IN  [q |-> Append(low.q, top \div k), r |-> low.r]
BigDiv(a, k) == Trim(ShortDiv(a, Len(a), 0, k).q)
BigMod(a, k) == ShortDiv(a, Len(a), 0, k).r

\* a * 2^n and the integer part of a / 2^n.
BigShl(a, n) ==
    IF a = << >> THEN a
    ELSE [i \in 1..(n \div LIMB_BITS) |-> 0] \o BigTimes(a, 2^(n % LIMB_BITS))
BigShr(a, n) ==
    IF n \div LIMB_BITS >= Len(a) THEN << >>
    ELSE BigDiv(SubSeq(a, n \div LIMB_BITS + 1, Len(a)), 2^(n % LIMB_BITS))

RECURSIVE Bits(_)
Bits(k) == IF k = 0 THEN 0 ELSE 1 + Bits(k \div 2)
BitLen(a) ==
    IF a = << >> THEN 0 ELSE LIMB_BITS * (Len(a) - 1) + Bits(a[Len(a)])
BigOdd(a) == a # << >> /\ a[1] % 2 = 1

\* a / 2^n (n >= 1) rounded to the nearest natural, a tie to the even one.
ShrRound(a, n) ==
    LET q == BigShr(a, n)
        c == BigCmp(BigSub(a, BigShl(q, n)), BigShl(<<1>>, n - 1))
    IN  IF c > 0 \/ (c = 0 /\ BigOdd(q)) THEN BigAdd(q, <<1>>) ELSE q

\* The largest digit d < LIMB with b * d <= a, for a < b * LIMB: the bits of
\* d from the highest down.
RECURSIVE QuotientDigit(_, _, _, _)
QuotientDigit(a, b, bit, d) ==
    IF bit < 0 THEN d
    ELSE IF BigCmp(BigTimes(b, d + 2^bit), a) <= 0
         THEN QuotientDigit(a, b, bit - 1, d + 2^bit)
         ELSE QuotientDigit(a, b, bit - 1, d)

\* Long division of the limbs a[1..i], with the remainder rest carried down
\* from the limbs above, by the natural b > 0.
RECURSIVE LongDiv(_, _, _, _)
LongDiv(a, i, rest, b) ==
    IF i = 0 THEN [q |-> << >>, r |-> rest]
    ELSE LET top == Trim(<<a[i]>> \o rest)
             d == QuotientDigit(top, b, LIMB_BITS - 1, 0)
             low == LongDiv(a, i - 1, BigSub(top, BigTimes(b, d)), b)
         IN  [q |-> Append(low.q, d), r |-> low.r]
BigDivMod(a, b) ==
    LET d == LongDiv(a, Len(a), << >>, b) IN [q |-> Trim(d.q), r |-> d.r]

\* The double nearest to n * 2^e.
Rounded(n, e) ==
    LET over == BitLen(n) - MANT_BITS
    IN  IF over <= 0 THEN [m |-> n, e |-> e]
        ELSE LET q == ShrRound(n, over)
             IN  IF BitLen(q) > MANT_BITS
                 THEN [m |-> BigShr(q, 1), e |-> e + over + 1]
                 ELSE [m |-> q, e |-> e + over]

\* A quotient q with a remainder that is zero or not, as a natural that
\* rounds the same way at any bit above its last two.
Sticky(q, exact) == BigAdd(BigTimes(q, 2), IF exact THEN << >> ELSE <<1>>)

\* The float of the decimal n / d for naturals n and 0 < d <= LIMB: the
\* double nearest to it, which is what a float literal (0.02, 1.02) and
\* float() of a decimal string (api.py:150, 211) give.
FloatOf(n, d) ==
    IF n = 0 THEN [m |-> << >>, e |-> 0]
    ELSE LET a == BigShl(BigOf(n), 75)
         IN  Rounded(Sticky(BigDiv(a, d), BigMod(a, d) = 0), -76)

\* -1, 0 or 1 as the double x is below, equal to or above y.
FCmp(x, y) ==
    LET e == Min(x.e, y.e)
    IN  BigCmp(BigShl(x.m, x.e - e), BigShl(y.m, y.e - e))
\* x + y.
FAdd(x, y) ==
    LET e == Min(x.e, y.e)
    IN  Rounded(BigAdd(BigShl(x.m, x.e - e), BigShl(y.m, y.e - e)), e)
\* x - y for x >= y.
FSub(x, y) ==
    LET e == Min(x.e, y.e)
    IN  Rounded(BigSub(BigShl(x.m, x.e - e), BigShl(y.m, y.e - e)), e)
\* x * y.
FMul(x, y) == Rounded(BigMul(x.m, y.m), x.e + y.e)
\* x / y for y > 0.
FDiv(x, y) ==
    IF x.m = << >> THEN x
    ELSE LET k == MANT_BITS + 3 + BitLen(y.m) - BitLen(x.m)
             d == BigDivMod(BigShl(x.m, k), y.m)
         IN  Rounded(Sticky(d.q, d.r = << >>), x.e - y.e - k - 1)

\* sum() of prices given in thousandths: the floats are added from left to
\* right, starting from the int 0.
RECURSIVE FSumFrom(_, _, _)
FSumFrom(acc, q, i) ==
    IF i > Len(q) THEN acc
    ELSE FSumFrom(FAdd(acc, FloatOf(q[i], 1000)), q, i + 1)
FSum(q) == FSumFrom([m |-> << >>, e |-> 0], q, 1)

\* round(x, 4) in units of 1/10000: the decimal with 4 places nearest to
\* the exact value of the double x, a tie to the even one.
PyRound4(x) ==
    LET n == BigTimes(x.m, 10000)
    IN  IF x.e >= 0 THEN IntOf(BigShl(n, x.e)) ELSE IntOf(ShrRound(n, -x.e))

NoOpp == [kind |-> "none", id |-> 0, asks |-> << >>, total_cost |-> 0,
          gross_profit |-> 0, net_profit |-> 0, roi_pct |-> 0,
          capital_required |-> 0]
Raised == [kind |-> "error", id |-> 0, asks |-> << >>, total_cost |-> 0,
           gross_profit |-> 0, net_profit |-> 0, roi_pct |-> 0,
           capital_required |-> 0]
PendingRes == [kind |-> "pending", id |-> 0, asks |-> << >>, total_cost |-> 0,
               gross_profit |-> 0, net_profit |-> 0, roi_pct |-> 0,
               capital_required |-> 0]

(***************************************************************************)
(* The evaluator's floats.  Each is within a few units of 10^-16 of the    *)
(* decimal number it stands for, and the decimals compared below are       *)
(* multiples of 10^-5, so two floats whose decimals differ compare as the  *)
(* decimals do; the comparison is computed on the floats where the         *)
(* decimals are equal, the one case in which the rounding errors decide.   *)
(***************************************************************************)
\* The literal 1.0.
FOne == FloatOf(1, 1)

\* arbitrage.py:119: total_cost = sum(o.best_ask for o in outcomes ...).
TotalCost(asks) == FSum(asks)

\* arbitrage.py:124: gross_profit = 1.0 - total_cost, for total_cost < 1.0.
GrossProfit(asks) == FSub(FOne, TotalCost(asks))

\* arbitrage.py:128: net_profit = gross_profit * (1.0 - fee_rate), the float.
FloatNetProfit(asks, fee_pct) ==
    FMul(GrossProfit(asks), FSub(FOne, FloatOf(fee_pct, 100)))

\* arbitrage.py:132: (net_profit / total_cost) * 100.0, for total_cost > 0.
FloatRoiPct(asks, fee_pct) ==
    FMul(FDiv(FloatNetProfit(asks, fee_pct), TotalCost(asks)), FloatOf(100, 1))

\* arbitrage.py:121: total_cost >= 1.0.  Asks whose decimal sum is exactly
\* 1.0 pass the test or not as their float sum is 1.0 or the double below.
NoArbitrage(asks) ==
    IF SumSeq(asks) # PAYOUT THEN SumSeq(asks) > PAYOUT
    ELSE FCmp(TotalCost(asks), FOne) >= 0

\* arbitrage.py:128, 140: the net profit as round(net_profit, 6) reports
\* it, in 1/100000 dollar for a gross profit in thousandths and a fee in
\* percent.
NetProfit(gross_profit, fee_pct) == gross_profit * (100 - fee_pct)

\* A threshold test that rejects nothing.
BelowMinimumNever(asks, fee_pct, min_profit_mills) == FALSE

\* A threshold test on the decimal values that also rejects a net profit
\* equal to the minimum.
BelowMinimumOrEqual(asks, fee_pct, min_profit_mills) ==
    NetProfit(PAYOUT - SumSeq(asks), fee_pct) <= min_profit_mills * 100

\* arbitrage.py:129: net_profit < min_profit, the minimum in thousandths.
\* A net profit whose decimal value equals the minimum is below it or not
\* as the float product is.
BelowMinimum(asks, fee_pct, min_profit_mills) ==
    LET net_profit == NetProfit(PAYOUT - SumSeq(asks), fee_pct)
    IN  IF net_profit # min_profit_mills * 100
        THEN net_profit < min_profit_mills * 100
        ELSE FCmp(FloatNetProfit(asks, fee_pct),
                  FloatOf(min_profit_mills, 1000)) < 0

\* arbitrage.py:132, 141: round(roi_pct, 4) in 1/10000 percent.  The
\* quotient net_profit * 10000 / total_cost of the decimals rounds to its
\* nearest integer unless it lies halfway between two; there the float
\* lies beside the tie or on it, and round() decides on the float.
RoiPct(asks, fee_pct) ==
    LET total_cost == SumSeq(asks)
        n == NetProfit(PAYOUT - total_cost, fee_pct) * 10000
    IN  IF total_cost = 0 THEN 0
        ELSE IF 2 * (n % total_cost) < total_cost THEN n \div total_cost
        ELSE IF 2 * (n % total_cost) > total_cost THEN n \div total_cost + 1
        ELSE PyRound4(FloatRoiPct(asks, fee_pct))

\* arbitrage.py:101-143: _evaluate_arbitrage on the best asks of the
\* outcomes built by the caller, at the given fee rate and minimum profit;
\* asks is the best_ask of the opportunity's outcomes, in outcome order.
\* round(x, 6) of total_cost, gross_profit and net_profit is the decimal
\* number, in thousandths and 1/100000.
EvaluateArbitrageWith(m, asks, fee_pct, min_profit_mills) ==
    IF NoArbitrage(asks) THEN NoOpp
    ELSE IF BelowMinimum(asks, fee_pct, min_profit_mills) THEN NoOpp
    ELSE [kind |-> "opp", id |-> m.id, asks |-> asks,
          total_cost |-> SumSeq(asks),
          gross_profit |-> PAYOUT - SumSeq(asks),
          net_profit |-> NetProfit(PAYOUT - SumSeq(asks), fee_pct),
          roi_pct |-> RoiPct(asks, fee_pct),
          capital_required |-> SumSeq(asks)]

\* scanner.py:96-97, 164-165: the evaluator at the scanner's configuration.
EvaluateArbitrage(m, asks) ==
    EvaluateArbitrageWith(m, asks, FEE_PCT, MIN_PROFIT)

\* arbitrage.py:21-48: detect_arbitrage_from_orderbooks; asks[i] = 0 stands
\* for an order book without asks.  Indexing market.outcomes or
\* market.outcome_prices beyond their length raises IndexError.
DetectFromOrderbooksWith(m, asks, fee_pct, min_profit_mills) ==
    IF Len(asks) # m.ntok THEN NoOpp
    ELSE LET stop == {i \in 1..Len(asks) :
                         asks[i] = 0 \/ i > m.nout \/ i > Len(m.prices)}
             first == CHOOSE i \in stop : \A j \in stop : i <= j
         IN  IF stop = {}
             THEN EvaluateArbitrageWith(m, asks, fee_pct, min_profit_mills)
             ELSE IF asks[first] = 0 THEN NoOpp
             ELSE Raised

\* scanner.py:161-166: detect_arbitrage_from_orderbooks as _check_market
\* calls it.
DetectFromOrderbooks(m, asks) ==
    DetectFromOrderbooksWith(m, asks, FEE_PCT, MIN_PROFIT)

\* arbitrage.py:51-71: detect_arbitrage_from_prices; the ask prices are
\* numbers, 0 included.
DetectFromPricesWith(m, ask_prices, fee_pct, min_profit_mills) ==
    IF Len(ask_prices) # m.ntok THEN NoOpp
    ELSE IF \E i \in 1..Len(ask_prices) : i > m.nout \/ i > Len(m.prices)
         THEN Raised
    ELSE EvaluateArbitrageWith(m, ask_prices, fee_pct, min_profit_mills)

\* arbitrage.py:74-98: detect_arbitrage_from_midpoints.
DetectFromMidpointsWith(m, fee_pct, min_profit_mills) ==
    IF Len(m.prices) < 2 THEN NoOpp
    ELSE IF Len(m.prices) > m.nout \/ Len(m.prices) > m.ntok THEN Raised
    ELSE EvaluateArbitrageWith(m, m.prices, fee_pct, min_profit_mills)

\* scanner.py:94-98: detect_arbitrage_from_midpoints as scan() calls it.
DetectFromMidpoints(m) == DetectFromMidpointsWith(m, FEE_PCT, MIN_PROFIT)

(***************************************************************************)
(* Scanner.scan                                                            *)
(***************************************************************************)
\* Bound on the number of markets the universe fetch returns.
MaxListing == 2
\* Bound on the number of instruments of one market.
MaxInstruments == 2

Mkt(id, active, liquidity, nout, ntok, prices) ==
    [id |-> id, active |-> active, liquidity |-> liquidity, volume |-> 1000,
     nout |-> nout, ntok |-> ntok, prices |-> prices]

\* The markets the venue can list: an underpriced one whose liquidity of 50
\* lies between the min_liquidity settings explored, one whose reference
\* prices sum to exactly 1.02 in decimals and to 1.0199999999999998 in
\* floats, one at the pre-filter ceiling (0.60 + 0.42 is 1.02, the float
\* sum too), an inactive one, and one with fewer outcome names than
\* instrument ids and prices.
MarketPool ==
    {Mkt(1, TRUE, 50, 2, 2, <<400, 400>>),
     Mkt(2, TRUE, 500, 2, 2, <<1, 1019>>),
     Mkt(3, TRUE, 500, 2, 2, <<600, 420>>),
     Mkt(4, FALSE, 500, 2, 2, <<300, 300>>),
     Mkt(5, TRUE, 500, 1, 2, <<300, 300>>)}

\* The lists fetch_all_active_markets can return: markets of the pool, each
\* at most once, in any order.
Listings ==
    {q \in UNION {[1..n -> MarketPool] : n \in 0..MaxListing} :
        \A i, j \in DOMAIN q : i # j => q[i].id # q[j].id}

\* Best asks an order book can show (0: the book has no asks).
AskSet == {0, 350, 500}

\* One order-book fetch: its state, the best ask of the book it returned and
\* its rank among the fetches of the same market in order of completion.
BookPending == [st |-> "pending", ask |-> 0, at |-> 0]
BookFailed == [st |-> "failed", ask |-> 0, at |-> 0]
BookOk(a) == [st |-> "ok", ask |-> a, at |-> 0]

\* The results in order of completion instead of task order.
GatherByCompletion(bk) ==
    [k \in 1..Len(bk) |-> bk[CHOOSE i \in 1..Len(bk) : bk[i].at = k].ask]

\* api.py:176-177: asyncio.gather returns the results in the order of the
\* task list, which is the order of market.clob_token_ids.
GatherResults(bk) == [k \in 1..Len(bk) |-> bk[k].ask]

\* scanner.py:108-121: _filter_markets keeps a market or drops it.
KeepMarket(m) ==
    /\ m.active
    /\ ~(m.liquidity < min_liquidity)
    /\ ~(m.volume < min_volume)
    /\ ~(m.ntok < 2)
FilterMarkets(q) == SelectSeq(q, KeepMarket)

\* scanner.py:131-133: total = sum(market.outcome_prices); total < 1.02.
\* Floats whose decimals differ compare as the decimals do; reference
\* prices whose decimal sum is exactly 1.02 pass or not as their float sum
\* is below the float 1.02 or not.
IsCandidate(m) ==
    IF SumSeq(m.prices) # PREFILTER_CEILING
    THEN SumSeq(m.prices) < PREFILTER_CEILING
    ELSE FCmp(FSum(m.prices), FloatOf(PREFILTER_CEILING, PAYOUT)) < 0

\* scanner.py:123-135: _prefilter_with_midpoints.
PrefilterWithMidpoints(q) == SelectSeq(q, IsCandidate)

\* scanner.py:103: opportunities.sort(key=roi_pct, reverse=True); list.sort
\* is stable, also with reverse=True.
\* An insertion that puts x before the elements of equal ROI.
RECURSIVE InsertByRoiUnstable(_, _)
InsertByRoiUnstable(x, q) ==
    IF q = << >> THEN <<x>>
    ELSE IF Head(q).roi_pct > x.roi_pct
         THEN <<Head(q)>> \o InsertByRoiUnstable(x, Tail(q))
         ELSE <<x>> \o q

RECURSIVE InsertByRoi(_, _)
InsertByRoi(x, q) ==
    IF q = << >> THEN <<x>>
    ELSE IF Head(q).roi_pct >= x.roi_pct
         THEN <<Head(q)>> \o InsertByRoi(x, Tail(q))
         ELSE <<x>> \o q

RECURSIVE SortByRoi(_)
SortByRoi(q) ==
    IF q = << >> THEN << >>
    ELSE InsertByRoi(q[Len(q)], SortByRoi(SubSeq(q, 1, Len(q) - 1)))

IsOpp(x) == x.kind = "opp"
IsError(x) == x.kind = "error"

\* One failed task makes the whole gather fail: nothing is kept.
DeepOpportunitiesAllOrNothing(results) ==
    IF \E c \in 1..Len(results) : IsError(results[c]) THEN << >>
    ELSE SelectSeq(results, IsOpp)

\* scanner.py:149-156: the opportunities of the tasks that returned one, in
\* candidate order.
DeepOpportunities(results) == SelectSeq(results, IsOpp)

\* scanner.py:149-152: one error entry per task that ended in an exception,
\* in candidate order.
DeepErrors(cands, results) ==
    [k \in 1..Len(SelectSeq(results, IsError)) |->
        [kind |-> "market",
         id |-> cands[CHOOSE c \in 1..Len(results) :
                        /\ IsError(results[c])
                        /\ Cardinality({d \in 1..c : IsError(results[d])}) = k].id]]

\* The universe fetch raised and the exception escapes scan().
UniverseFailsEscapes ==
    /\ spc = "start"
    /\ universeFailed' = TRUE
    /\ spc' = "raised"
    /\ UNCHANGED <<use_orderbooks, min_liquidity, markets, markets_scanned, candidates,
                   books, res, opportunities, errors, bookFetches>>
    /\ UNCHANGED notScanVars

\* scanner.py:70-76: the universe fetch raised; the error is recorded and
\* the empty result returned.
UniverseFails ==
    /\ spc = "start"
    /\ universeFailed' = TRUE
    /\ errors' = Append(errors, [kind |-> "fetch", id |-> 0])
    /\ spc' = "returned"
    /\ UNCHANGED <<use_orderbooks, min_liquidity, markets, markets_scanned, candidates,
                   books, res, opportunities, bookFetches>>
    /\ UNCHANGED notScanVars

\* scanner.py:71-89, 137-147, 158-160 and api.py:174-177: the universe was
\* fetched, filtered and pre-filtered, and deep verification starts: one
\* _check_market task per candidate, each issuing one order-book fetch per
\* instrument id.
StartDeepScan ==
    LET filtered == FilterMarkets(markets)
        cands == PrefilterWithMidpoints(filtered)
    IN  /\ spc = "start"
        /\ use_orderbooks /\ cands # << >>
        /\ markets_scanned' = Len(filtered)
        /\ candidates' = cands
        /\ books' = [c \in 1..Len(cands) |->
                        [i \in 1..cands[c].ntok |-> BookPending]]
        /\ res' = [c \in 1..Len(cands) |-> PendingRes]
        /\ bookFetches' = SumSeq([c \in 1..Len(cands) |-> cands[c].ntok])
        /\ spc' = "deep"
        /\ UNCHANGED <<use_orderbooks, min_liquidity, universeFailed, markets, opportunities,
                       errors>>
        /\ UNCHANGED notScanVars

\* scanner.py:71-106 with the else branch of line 88: the candidates are
\* evaluated on their reference prices; an exception of the evaluator
\* escapes scan().
ScanMidpoints ==
    LET filtered == FilterMarkets(markets)
        cands == PrefilterWithMidpoints(filtered)
        found == [c \in 1..Len(cands) |-> DetectFromMidpoints(cands[c])]
    IN  /\ spc = "start"
        /\ ~(use_orderbooks /\ cands # << >>)
        /\ markets_scanned' = Len(filtered)
        /\ candidates' = cands
        /\ IF \E c \in 1..Len(cands) : IsError(found[c])
           THEN /\ spc' = "raised"
                /\ UNCHANGED opportunities
           ELSE /\ spc' = "returned"
                /\ opportunities' = SortByRoi(SelectSeq(found, IsOpp))
        /\ UNCHANGED <<use_orderbooks, min_liquidity, universeFailed, markets, books, res,
                       errors, bookFetches>>
        /\ UNCHANGED notScanVars

\* api.py:142-151, 174-177 and scanner.py:158-181: the order-book fetch of
\* instrument i of candidate c ends, in b.  The gather of
\* fetch_orderbooks_for_market raises the first failure of its fetches to
\* _check_market at once and otherwise returns all books in instrument
\* order; fetches still running after a failure run on, and what they
\* return is read by nobody: only their completion is recorded.
BookDone(c, i, b) ==
    LET done == Cardinality({k \in 1..Len(books[c]) :
                                books[c][k] # BookPending})
        seen == IF res[c] = PendingRes THEN b.ask ELSE 0
        mine == [books[c] EXCEPT
                   ![i] = [st |-> b.st, ask |-> seen, at |-> done + 1]]
        asks == GatherResults(mine)
    IN  /\ spc \in {"deep", "returned"}
        /\ c \in 1..Len(books)
        /\ i \in 1..Len(books[c])
        /\ books[c][i] = BookPending
        /\ books' = [books EXCEPT ![c] = mine]
        /\ res' = IF res[c] # PendingRes THEN res
                  ELSE IF b.st = "failed"
                       THEN [res EXCEPT ![c] = Raised]
                  ELSE IF \A k \in 1..Len(mine) : mine[k].st = "ok"
                       THEN [res EXCEPT
                               ![c] = DetectFromOrderbooks(candidates[c], asks)]
                  ELSE res
        /\ UNCHANGED <<spc, use_orderbooks, min_liquidity, universeFailed, markets,
                       markets_scanned, candidates, opportunities, errors,
                       bookFetches>>
        /\ UNCHANGED notScanVars

\* api.py:142-151: fetch_orderbook returned a book whose best ask is a.
BookFetched(c, i, a) == BookDone(c, i, BookOk(a))

\* api.py:144: the _request of fetch_orderbook raised.
BookFails(c, i) == BookDone(c, i, BookFailed)

\* scanner.py:147-156, 102-106: every _check_market task has ended; failures
\* become error entries, opportunities are collected in candidate order
\* and sorted.
Collect ==
    /\ spc = "deep"
    /\ \A c \in 1..Len(res) : res[c] # PendingRes
    /\ errors' = errors \o DeepErrors(candidates, res)
    /\ opportunities' = SortByRoi(DeepOpportunities(res))
    /\ spc' = "returned"
    /\ UNCHANGED <<use_orderbooks, min_liquidity, universeFailed, markets, markets_scanned,
                   candidates, books, res, bookFetches>>
    /\ UNCHANGED notScanVars

ScanInit ==
    /\ \E u \in BOOLEAN, ml \in Liquidities, listing \in Listings :
          ScanStart(u, ml, listing)
    /\ LoopStart(FALSE, 60, FALSE, FALSE)
    /\ ClientStart
    /\ FetchStart(<< >>, 0)
    /\ LibraryStart

ScanNext ==
    \/ UniverseFails
    \/ StartDeepScan
    \/ ScanMidpoints
    \/ \E c \in 1..MaxListing, i \in 1..MaxInstruments, a \in AskSet :
          BookFetched(c, i, a)
    \/ \E c \in 1..MaxListing, i \in 1..MaxInstruments : BookFails(c, i)
    \/ Collect

ScanSpec == ScanInit /\ [][ScanNext]_vars

(***************************************************************************)
(* Claims about Scanner.scan                                               *)
(***************************************************************************)
\* C10: when the universe fetch fails scan() has returned (not raised) a
\* ScanResult with markets_scanned 0, no opportunity and exactly one error
\* entry, and no order-book fetch was issued.
C10_UniverseFailureReported ==
    universeFailed =>
        /\ spc = "returned"
        /\ markets_scanned = 0
        /\ opportunities = << >>
        /\ Len(errors) = 1
        /\ bookFetches = 0

\* The universe fetch of a deep-verifying scanner failed.
C10_Witness ==
    /\ universeFailed
    /\ use_orderbooks
    /\ spc = "returned"
    /\ errors = <<[kind |-> "fetch", id |-> 0]>>

\* A candidate one of whose order-book fetches failed.
FetchFailed(c) == \E i \in 1..Len(books[c]) : books[c][i].st = "failed"
ErrorsOf(m) == {k \in 1..Len(errors) : errors[k] = [kind |-> "market", id |-> m.id]}
OppsOf(m) == {k \in 1..Len(opportunities) : opportunities[k].id = m.id}

\* C11: in the result of a deep-verifying scan, a candidate with one or more
\* failed order-book fetches has exactly one entry in the error list and no
\* opportunity, and the opportunity found for any other candidate is in the
\* opportunity list.
C11_DeepFailureIsolated ==
    (spc = "returned" /\ books # << >>) =>
        \A c \in 1..Len(candidates) :
            /\ FetchFailed(c) =>
                  /\ Cardinality(ErrorsOf(candidates[c])) = 1
                  /\ OppsOf(candidates[c]) = {}
            /\ IsOpp(res[c]) =>
                  \E k \in OppsOf(candidates[c]) : opportunities[k] = res[c]

\* Both fetches of one candidate failed, and the other candidate's
\* opportunity is the whole opportunity list.
C11_Witness ==
    /\ spc = "returned"
    /\ Len(books) = 2
    /\ \E c, d \in 1..2 :
          /\ \A i \in 1..Len(books[c]) : books[c][i].st = "failed"
          /\ IsOpp(res[d])
          /\ opportunities = <<res[d]>>
    /\ Len(errors) = 1

\* A market the filter removes or whose reference prices sum to 1.02 or more.
RejectedBeforeDeepScan(m) ==
    \/ ~m.active
    \/ m.liquidity < min_liquidity
    \/ m.volume < min_volume
    \/ m.ntok < 2
    \/ SumSeq(m.prices) >= 1020

\* C12: the order-book fetches issued in a scan cycle are exactly those of
\* the markets deep verification was started for, and none of these markets
\* is one that the filter removes or whose reference prices sum to 1.02 or
\* more; without deep verification no order book is fetched at all.
C12_NoFetchForRejected ==
    /\ \A k \in 1..Len(markets) :
          RejectedBeforeDeepScan(markets[k]) =>
              \A c \in 1..Len(books) : candidates[c].id # markets[k].id
    /\ bookFetches = SumSeq([c \in 1..Len(books) |-> Len(books[c])])
    /\ ~use_orderbooks => bookFetches = 0

\* C13: scan() never ends by raising: whatever markets were fetched and
\* whatever failed for a single market, in deep-verification mode and in
\* reference-price mode, the cycle ends by returning a ScanResult.
C13_ScanNeverRaises == spc # "raised"

\* Position of a market in the list the universe fetch returned.
FetchPosition(id) == CHOOSE k \in 1..Len(markets) : markets[k].id = id

\* C14: in a returned ScanResult every opportunity has an ROI percent not
\* below that of the opportunities after it, and of two opportunities with
\* the same ROI percent the one whose market was fetched first comes first.
C14_RankedByRoi ==
    spc = "returned" =>
        \A i, j \in 1..Len(opportunities) :
            i < j =>
                /\ opportunities[i].roi_pct >= opportunities[j].roi_pct
                /\ opportunities[i].roi_pct = opportunities[j].roi_pct =>
                      FetchPosition(opportunities[i].id)
                          < FetchPosition(opportunities[j].id)

\* Two opportunities with the same ROI percent were found.
C14_Witness ==
    /\ spc = "returned"
    /\ Len(opportunities) = 2
    /\ opportunities[1].roi_pct = opportunities[2].roi_pct
    /\ opportunities[1].id # opportunities[2].id

\* The best asks fetched for candidate c, in instrument order.
AsksOf(c) == [i \in 1..Len(books[c]) |-> books[c][i].ask]

\* Candidate c passed the filter and the pre-filter, every one of its order
\* books has asks, and the best asks sum to less than 1.0 with a net profit
\* of at least min_profit (0.005 at a fee rate of 2%).
Profitable(c) ==
    /\ ~RejectedBeforeDeepScan(candidates[c])
    /\ \A i \in 1..Len(books[c]) : books[c][i].st = "ok" /\ books[c][i].ask > 0
    /\ SumSeq(AsksOf(c)) < 1000
    /\ (1000 - SumSeq(AsksOf(c))) * 98 >= 500

\* C15: when a deep-verifying scan has returned and none of its fetches
\* failed, the markets in the opportunity list are exactly the fetched
\* markets that pass the filter and the pre-filter and whose best asks are
\* profitable, each of them once.
C15_ExactlyTheProfitable ==
    (/\ spc = "returned"
     /\ use_orderbooks
     /\ ~universeFailed
     /\ \A c \in 1..Len(books) : ~FetchFailed(c)) =>
        /\ {opportunities[k].id : k \in 1..Len(opportunities)}
              = {candidates[c].id : c \in {d \in 1..Len(books) : Profitable(d)}}
        /\ \A c \in 1..Len(books) : Cardinality(OppsOf(candidates[c])) <= 1

\* C16: the order books handed to the evaluator for a market are one per
\* instrument id and in instrument order: the i-th best ask of an
\* opportunity is the best ask of the book fetched for the market's i-th
\* instrument id, in whatever order the fetches completed.
C16_ResultsInInstrumentOrder ==
    \A c \in 1..Len(books) :
        IsOpp(res[c]) =>
            /\ Len(res[c].asks) = candidates[c].ntok
            /\ \A i \in 1..Len(books[c]) : res[c].asks[i] = books[c][i].ask

\* The fetch for the second instrument completed before the fetch for the
\* first, and the two books show different best asks.
C16_Witness ==
    \E c \in 1..Len(books) :
        /\ IsOpp(res[c])
        /\ books[c][1].at = 2
        /\ books[c][2].at = 1
        /\ books[c][1].ask # books[c][2].ask

(***************************************************************************)
(* The market listing: fetch_all_active_markets, fetch_active_markets and  *)
(* _parse_market (api.py)                                                  *)
(***************************************************************************)
\* Bound on the number of raw items the venue lists.
MaxVenue == 3
\* Bound on the max_markets argument.
MaxMarkets == 2
\* api.py:131: page_size = 100, the limit of every listing request.
page_size == 100

\* One of the three parallel fields of a raw item: missing (or null or
\* empty), a string that is not JSON, or a list of n elements (given as a
\* list or as its JSON encoding).
Absent == [st |-> "absent", n |-> 0]
Garbled == [st |-> "garbled", n |-> 0]
List(n) == [st |-> "list", n |-> n]

RawObject(ids, prices, names) ==
    [shape |-> "object", clobTokenIds |-> ids, outcomePrices |-> prices,
     outcomes |-> names]
\* A listing item that is not a JSON object (a string, a number, null).
RawOther ==
    [shape |-> "other", clobTokenIds |-> Absent, outcomePrices |-> Absent,
     outcomes |-> Absent]

\* The raw items the venue can list: a well-formed binary market, a record
\* without prices, a single-outcome record, a record whose prices are not
\* JSON, a single-instrument record whose prices are not JSON, a record with
\* more prices than instruments, and an item that is no object.
RawKinds ==
    {RawObject(List(2), List(2), List(2)),
     RawObject(List(2), Absent, List(2)),
     RawObject(List(1), List(1), List(1)),
     RawObject(List(2), Garbled, List(2)),
     RawObject(List(1), Garbled, List(1)),
     RawObject(List(2), List(3), List(2)),
     RawOther}

\* The listings of the venue: the id of an item is its place in the listing.
Venues ==
    UNION {{[k \in 1..n |-> [id |-> k, raw |-> f[k]]] : f \in [1..n -> RawKinds]} :
              n \in 0..MaxVenue}

ParseNone == [kind |-> "none", id |-> 0, nout |-> 0, ntok |-> 0, nprices |-> 0]
ParseError == [kind |-> "error", id |-> 0, nout |-> 0, ntok |-> 0, nprices |-> 0]

\* api.py:180-216: _parse_market.  raw.get on an item that is no object
\* raises; a missing field gives None; json.loads raises on a string that
\* is not JSON; fewer than 2 instrument ids give None; otherwise a Market
\* is built from the three lists as they are.
ParseMarket(item) ==
    LET raw == item.raw IN
    IF raw.shape # "object" THEN ParseError
    ELSE IF \/ raw.clobTokenIds = Absent
            \/ raw.outcomePrices = Absent
            \/ raw.outcomes = Absent
         THEN ParseNone
    ELSE IF \/ raw.clobTokenIds = Garbled
            \/ raw.outcomePrices = Garbled
            \/ raw.outcomes = Garbled
         THEN ParseError
    ELSE IF raw.clobTokenIds.n < 2 THEN ParseNone
    ELSE [kind |-> "market", id |-> item.id, nout |-> raw.outcomes.n,
          ntok |-> raw.clobTokenIds.n, nprices |-> raw.outcomePrices.n]

IsMarket(r) == r.kind = "market"

\* api.py:123-124: the handler of a parse failure evaluates item.get("id", "?")
\* for its log line, which itself raises when the item has no get method.
HandlerRaises(item) ==
    /\ ParseMarket(item) = ParseError
    /\ item.raw.shape # "object"

\* api.py:117-125: the markets fetch_active_markets returns for a raw page.
ParsePage(page) ==
    SelectSeq([k \in 1..Len(page) |-> ParseMarket(page[k])], IsMarket)

\* The listing endpoint: at most limit items from the given offset on.
VenuePage(v, off, limit) ==
    IF off >= Len(v) THEN << >>
    ELSE SubSeq(v, off + 1, Min(off + limit, Len(v)))

\* A return value that is not cut to max_markets.
TruncateNothing(q, n) == q

\* api.py:138: all_markets[:max_markets].
Truncate(q, n) == SubSeq(q, 1, Min(n, Len(q)))

\* api.py:132-137 with 113-125: one iteration of the paging loop: the page
\* at offset is requested and parsed; an exception of the parse handler
\* escapes; an empty batch ends the loop and the call returns; otherwise the
\* batch is appended and offset advanced by its length.
FetchPage ==
    LET page == VenuePage(venue, offset, page_size)
        parsed == ParsePage(page)
    IN  /\ fpc = "loop"
        /\ offset < max_markets
        /\ pageRequests' = pageRequests + 1
        /\ data' = page
        /\ IF \E k \in 1..Len(page) : HandlerRaises(page[k])
           THEN /\ fpc' = "parse_raised"
                /\ UNCHANGED <<offset, all_markets, batch, fetched>>
           ELSE /\ batch' = parsed
                /\ IF parsed = << >>
                   THEN /\ fpc' = "returned"
                        /\ fetched' = Truncate(all_markets, max_markets)
                        /\ UNCHANGED <<offset, all_markets>>
                   ELSE /\ all_markets' = all_markets \o parsed
                        /\ offset' = offset + Len(parsed)
                        /\ UNCHANGED <<fpc, fetched>>
        /\ UNCHANGED <<venue, max_markets>>
        /\ UNCHANGED notFetchVars

\* api.py:113-116: the listing request fails (_request raises) and the
\* exception escapes fetch_all_active_markets.
PageRequestFails ==
    /\ fpc = "loop"
    /\ offset < max_markets
    /\ pageRequests' = pageRequests + 1
    /\ fpc' = "request_raised"
    /\ UNCHANGED <<venue, max_markets, offset, all_markets, data, batch,
                   fetched>>
    /\ UNCHANGED notFetchVars

\* api.py:132, 138: the loop condition fails and the call returns.
ReturnAll ==
    /\ fpc = "loop"
    /\ ~(offset < max_markets)
    /\ fpc' = "returned"
    /\ fetched' = Truncate(all_markets, max_markets)
    /\ UNCHANGED <<venue, max_markets, offset, all_markets, data, batch,
                   pageRequests>>
    /\ UNCHANGED notFetchVars

FetchInit ==
    /\ \E v \in Venues, mm \in 0..MaxMarkets : FetchStart(v, mm)
    /\ LoopStart(FALSE, 60, FALSE, FALSE)
    /\ ClientStart
    /\ ScanStart(TRUE, 0, << >>)
    /\ LibraryStart

FetchNext ==
    \/ FetchPage
    \/ PageRequestFails
    \/ ReturnAll

FetchSpec == FetchInit /\ [][FetchNext]_vars

\* The event loop keeps running the call while it can take a step.
FairFetchSpec == FetchSpec /\ WF_vars(FetchNext)

(***************************************************************************)
(* Claims about the market listing                                         *)
(***************************************************************************)
IdsOf(q) == [k \in 1..Len(q) |-> q[k].id]
IsListOf(field) == field.st = "list"

\* A raw item with everything a Market needs: an object whose three
\* parallel fields decode to lists, with at least 2 instrument ids.
Parseable(item) ==
    /\ item.raw.shape = "object"
    /\ IsListOf(item.raw.clobTokenIds)
    /\ IsListOf(item.raw.outcomePrices)
    /\ IsListOf(item.raw.outcomes)
    /\ item.raw.clobTokenIds.n >= 2

\* C17: parsing a page never raises, whatever the shape of its items, and
\* the batch returned for a page holds the markets of exactly the items of
\* the page that parse, in listing order.
C17_UnparseableSkipped ==
    /\ fpc # "parse_raised"
    /\ IdsOf(batch) = IdsOf(SelectSeq(data, Parseable))

\* C18: for every raw item of a page, a Market that _parse_market builds
\* from it has as many outcomes as instrument ids as prices, and at least 2
\* of them; an object that lacks one of the three fields or has fewer than
\* 2 instrument ids gives None, not a Market and not an exception.
C18_ParsedMarketWellFormed ==
    \A k \in 1..Len(data) :
        LET parsed == ParseMarket(data[k])
            raw == data[k].raw
        IN  /\ IsMarket(parsed) =>
                  /\ parsed.nout = parsed.ntok
                  /\ parsed.ntok = parsed.nprices
                  /\ parsed.ntok >= 2
            /\ (/\ raw.shape = "object"
                /\ \/ Absent \in {raw.clobTokenIds, raw.outcomePrices, raw.outcomes}
                   \/ (IsListOf(raw.clobTokenIds) /\ raw.clobTokenIds.n < 2)) =>
                  parsed = ParseNone

\* C19: the paging loop ends by returning only when the listing endpoint
\* has answered the last request with an empty page or max_markets markets
\* have been collected.
C19_PagesUntilEmptyOrMax ==
    fpc = "returned" =>
        \/ Len(all_markets) >= max_markets
        \/ (pageRequests > 0 /\ data = << >>)

\* C20: a call issues at most max_markets listing requests and then ends (it
\* returns, or a listing request or the parsing of a page raises), and a list
\* it returns holds at most max_markets markets.
C20_TerminatesWithinMax ==
    /\ [](/\ pageRequests <= max_markets
          /\ fpc = "returned" => Len(fetched) <= max_markets)
    /\ <>(fpc # "loop")

\* A call returned max_markets markets after having collected more.
C20_Witness ==
    /\ fpc = "returned"
    /\ max_markets > 0
    /\ Len(fetched) = max_markets
    /\ Len(all_markets) > max_markets

NoRepeats(q) == \A i, j \in 1..Len(q) : i # j => q[i] # q[j]

\* C39: the list fetch_all_active_markets returns holds each item of the
\* listing at most once, also when items of a page are skipped as
\* unparseable: when the loop goes on to a next page, the offset has
\* advanced by the number of items of the page just fetched.
C39_EachItemAtMostOnce ==
    /\ [](fpc = "returned" => NoRepeats(IdsOf(fetched)))
    /\ [][(pageRequests' > pageRequests /\ fpc' = "loop") =>
              offset' = offset + Len(data')]_vars

(***************************************************************************)
(* The evaluator called directly: detect_arbitrage_from_orderbooks,        *)
(* detect_arbitrage_from_prices, detect_arbitrage_from_midpoints           *)
(***************************************************************************)
\* Largest number of outcome names, instrument ids, reference prices and
\* supplied asks.
MaxAsks == 3

\* The prices explored, in thousandths of a dollar: 0.0, 0.40, 0.499 and
\* 0.50, and 0.072 and 0.428, with which 0.50 + 0.428 + 0.072 is a sum of
\* exactly 1.0 in decimals and of 0.9999999999999999 in floats, while
\* 0.50 + 0.50 is 1.0 in both.
AskPrices == {0, 72, 400, 428, 499, 500}

\* The price vectors of up to n entries.
Vectors(n) == UNION {[1..k -> AskPrices] : k \in 1..n}

\* The fee_rate arguments explored: the default 0.02 (arbitrage.py:17) and
\* 0.10; the min_profit arguments explored: 0.0, the default 0.005
\* (arbitrage.py:18), 0.49, the net profit of asks that sum to 0.50 at the
\* default fee rate (the float product is 0.49 too), and 0.196, the net
\* profit of asks that sum to 0.80 (the float product is
\* 0.19599999999999995).
FeeRates == {FEE_PCT, 10}
MinProfits == {0, MIN_PROFIT, 196, 490}

\* Market.outcome_prices of a market with np reference prices whose order
\* books quote q: the reference price of an outcome is its quote, 0.50 where
\* there is no quote.
ReferencePrices(q, np) == [i \in 1..np |-> IF i <= Len(q) THEN q[i] ELSE 500]

\* arbitrage.py:21-48.
DetectArbitrageFromOrderbooks ==
    /\ epc = "input"
    /\ epc' = "orderbooks"
    /\ opportunity' =
          DetectFromOrderbooksWith(market, quotes, fee_rate, min_profit)
    /\ UNCHANGED <<market, quotes, fee_rate, min_profit>>
    /\ UNCHANGED notEvalVars

\* arbitrage.py:51-71.
DetectArbitrageFromPrices ==
    /\ epc = "input"
    /\ epc' = "prices"
    /\ opportunity' = DetectFromPricesWith(market, quotes, fee_rate, min_profit)
    /\ UNCHANGED <<market, quotes, fee_rate, min_profit>>
    /\ UNCHANGED notEvalVars

\* arbitrage.py:74-98.
DetectArbitrageFromMidpoints ==
    /\ epc = "input"
    /\ epc' = "midpoints"
    /\ opportunity' = DetectFromMidpointsWith(market, fee_rate, min_profit)
    /\ UNCHANGED <<market, quotes, fee_rate, min_profit>>
    /\ UNCHANGED notEvalVars

EvalInit ==
    /\ \E q \in Vectors(MaxAsks), no \in 1..MaxAsks, nt \in 1..MaxAsks,
          np \in 1..MaxAsks, f \in FeeRates, mp \in MinProfits :
          EvalStart(Mkt(1, TRUE, 500, no, nt, ReferencePrices(q, np)), q, f, mp)
    /\ ProgramStart
    /\ DecisionIdle
    /\ KlIdle
    /\ NotifierIdle
    /\ StoreIdle

EvalNext ==
    \/ DetectArbitrageFromOrderbooks
    \/ DetectArbitrageFromPrices
    \/ DetectArbitrageFromMidpoints

EvalSpec == EvalInit /\ [][EvalNext]_vars

(***************************************************************************)
(* Claims about the evaluator                                              *)
(***************************************************************************)
\* The ask prices the variant that was called evaluates.
Evaluated == IF epc = "midpoints" THEN market.prices ELSE quotes

\* The market's three lists have one length, and where asks are supplied
\* (the reference-price variant takes none) there is one for each outcome.
WellFormed(m) ==
    /\ m.nout = m.ntok
    /\ Len(m.prices) = m.ntok
    /\ (epc # "midpoints") => Len(quotes) = m.ntok

\* C21: for any vector of ask prices whose sum is 1.0 or more, exactly 1.0
\* included, the evaluator returns no opportunity, in the order-book, the
\* price-list and the reference-price variant alike.
C21_NoOpportunityFromOneDollar ==
    (epc # "input" /\ SumSeq(Evaluated) >= PAYOUT) => opportunity.kind # "opp"

\* C22: every opportunity the evaluator returns has total_cost equal to the
\* sum of the asks and below 1.0, gross_profit = 1 - total_cost,
\* net_profit = gross_profit * (1 - fee_rate) and capital_required =
\* total_cost; asks of 0.40 and 0.40 at a fee of 0.02, with a minimum
\* profit no higher than the default, give a total_cost of 0.80 and a
\* net_profit of 0.196.
C22_OpportunityArithmetic ==
    /\ (opportunity.kind = "opp") =>
          /\ opportunity.total_cost = SumSeq(Evaluated)
          /\ opportunity.total_cost < PAYOUT
          /\ opportunity.gross_profit = PAYOUT - opportunity.total_cost
          /\ opportunity.net_profit * 100 =
                opportunity.gross_profit * 100 * (100 - fee_rate)
          /\ opportunity.capital_required = opportunity.total_cost
    /\ (/\ epc # "input"
        /\ WellFormed(market)
        /\ Evaluated = <<400, 400>>
        /\ fee_rate = 2
        /\ min_profit <= MIN_PROFIT) =>
          /\ opportunity.kind = "opp"
          /\ opportunity.total_cost = 800
          /\ opportunity.net_profit = 19600

\* C23: when the asks sum to less than 1.0 but (1 - total_cost) *
\* (1 - fee_rate) is below min_profit, the evaluator returns no opportunity;
\* every returned opportunity has net_profit >= min_profit.
C23_BelowMinimumProfitRejected ==
    /\ (/\ epc # "input"
        /\ SumSeq(Evaluated) < PAYOUT
        /\ (PAYOUT - SumSeq(Evaluated)) * (100 - fee_rate) < min_profit * 100)
          => opportunity.kind # "opp"
    /\ (opportunity.kind = "opp") => opportunity.net_profit >= min_profit * 100

\* Asks of 0.50 and 0.499 at the default minimum of 0.005: no opportunity.
C23_Witness ==
    /\ epc = "orderbooks"
    /\ WellFormed(market)
    /\ quotes = <<500, 499>>
    /\ min_profit = MIN_PROFIT
    /\ fee_rate = FEE_PCT
    /\ opportunity = NoOpp

\* The net profit of the evaluated asks equals min_profit exactly.
AtMinimum ==
    /\ epc # "input"
    /\ SumSeq(Evaluated) < PAYOUT
    /\ NetProfit(PAYOUT - SumSeq(Evaluated), fee_rate) = min_profit * 100

\* The variant that was called reaches _evaluate_arbitrage.  With supplied
\* asks: there are as many as instrument ids (arbitrage.py:33-34, 59-60),
\* no order book lacks an ask (arbitrage.py:36-38) and the market has an
\* outcome name and a reference price for each (arbitrage.py:40-46,
\* 64-69).  In the reference-price variant, which takes no asks: the market
\* has at least 2 reference prices (arbitrage.py:85-86) and an outcome name
\* and an instrument id for each (arbitrage.py:88-96).
Evaluates ==
    IF epc = "midpoints"
    THEN /\ Len(market.prices) >= 2
         /\ Len(market.prices) <= market.nout
         /\ Len(market.prices) <= market.ntok
    ELSE /\ Len(quotes) = market.ntok
         /\ Len(quotes) <= market.nout
         /\ Len(quotes) <= Len(market.prices)
         /\ (epc = "orderbooks") => \A i \in 1..Len(quotes) : quotes[i] > 0

\* C36: when net_profit equals min_profit exactly the evaluator returns no
\* opportunity, in the order-book, the price-list and the reference-price
\* variant alike.
C36_EqualityRejected == AtMinimum => opportunity.kind # "opp"

\* The float net profit of the evaluated asks is not below the float
\* min_profit.
FloatAtLeastMinimum ==
    FCmp(FloatNetProfit(Evaluated, fee_rate), FloatOf(min_profit, 1000)) >= 0

\* C36, amended: the test is on the floats and strict.  When the net profit
\* the evaluator computes equals min_profit exactly it returns the
\* opportunity, in each of the three variants that evaluates the asks, and
\* only a computed net profit strictly below min_profit is rejected: asks
\* whose decimal net profit equals min_profit give the opportunity, with
\* that net profit, unless the rounding of the float product puts it below
\* min_profit (asks of 0.40 and 0.40 at a fee of 0.02 and a minimum of
\* 0.196: the product is 0.19599999999999995).
C36_EqualityAccepted ==
    (AtMinimum /\ Evaluates) =>
        IF FloatAtLeastMinimum
        THEN /\ opportunity.kind = "opp"
             /\ opportunity.net_profit = min_profit * 100
        ELSE opportunity = NoOpp

\* Reference prices of 0.50 and 0.0 at the default fee rate and a minimum
\* profit of 0.49: the net profit is 0.49 and the opportunity is returned.
C36_Witness ==
    /\ epc = "midpoints"
    /\ market.prices = <<500, 0>>
    /\ fee_rate = FEE_PCT
    /\ min_profit = 490
    /\ AtMinimum
    /\ Evaluates
    /\ FloatAtLeastMinimum
    /\ opportunity.kind = "opp"
    /\ opportunity.net_profit = 49000

\* C24: the evaluator returns no opportunity when the number of supplied
\* order books or prices differs from the number of outcomes in the market's
\* outcome list, and when any outcome's order book has no ask; it never
\* builds an opportunity from fewer asks than the market has outcomes.
C24_CountMismatchAndMissingAsk ==
    /\ (epc \in {"orderbooks", "prices"} /\ Len(quotes) # market.nout)
          => opportunity = NoOpp
    /\ (epc = "orderbooks" /\ \E i \in 1..Len(quotes) : quotes[i] = 0)
          => opportunity = NoOpp
    /\ (opportunity.kind = "opp") => Len(opportunity.asks) >= market.nout

(***************************************************************************)
(* The trading decision: alpha_extraction_check and should_trade           *)
(* (profit.py).  Divergence, gap and threshold are decimals counted in     *)
(* hundredths and alpha a decimal counted in tenths, which takes in the    *)
(* defaults alpha = 0.9 and min_threshold = 0.05; the product              *)
(* (1.0 - alpha) * divergence is computed on the floats of these decimals. *)
(***************************************************************************)
\* Largest divergence, gap and threshold explored, in hundredths.
MaxDivergence == 10
MaxGap == 2
MaxThreshold == 5

\* 1.0 in the hundredths divergence, gap and threshold are counted in, and
\* in the tenths alpha is counted in.
DecisionUnit == 100
AlphaUnit == 10

\* The extraction test on the decimals, without the branch for a divergence
\* of 0 or less.
AlphaExtractionCheckNoEdge(d, g, a) == g * AlphaUnit <= (AlphaUnit - a) * d

\* profit.py:116: (1.0 - alpha) * divergence for alpha <= 1.0 and a
\* positive divergence.
AlphaShare(d, a) ==
    FMul(FSub(FOne, FloatOf(a, AlphaUnit)), FloatOf(d, DecisionUnit))

\* profit.py:102-116: alpha_extraction_check.
AlphaExtractionCheck(d, g, a) ==
    IF d <= 0 THEN TRUE
    ELSE FCmp(FloatOf(g, DecisionUnit), AlphaShare(d, a)) <= 0

\* profit.py:129-146: should_trade.
ShouldTrade(d, g, a, mt) ==
    IF d < mt THEN FALSE
    ELSE IF AlphaExtractionCheck(d, g, a) THEN FALSE
    ELSE TRUE

\* A returned bool.
Verdict(b) == IF b THEN "yes" ELSE "no"

\* should_trade is called.
CallShouldTrade ==
    /\ trade = "unset"
    /\ trade' = Verdict(ShouldTrade(divergence, gap, alpha, min_threshold))
    /\ UNCHANGED <<divergence, gap, alpha, min_threshold, extracted>>
    /\ UNCHANGED notDecisionVars

\* alpha_extraction_check is called.
CallAlphaExtractionCheck ==
    /\ extracted = "unset"
    /\ extracted' = Verdict(AlphaExtractionCheck(divergence, gap, alpha))
    /\ UNCHANGED <<divergence, gap, alpha, min_threshold, trade>>
    /\ UNCHANGED notDecisionVars

DecisionInit ==
    /\ \E d \in -1..MaxDivergence, g \in 0..MaxGap, a \in 0..AlphaUnit,
          mt \in 0..MaxThreshold : DecisionStart(d, g, a, mt)
    /\ ProgramStart
    /\ EvalIdle
    /\ KlIdle
    /\ NotifierIdle
    /\ StoreIdle

DecisionNext ==
    \/ CallShouldTrade
    \/ CallAlphaExtractionCheck

DecisionSpec == DecisionInit /\ [][DecisionNext]_vars

(***************************************************************************)
(* Claims about the trading decision                                       *)
(***************************************************************************)
\* gap <= (1 - alpha) * D on the decimal values of the arguments.
WithinAlpha == gap * AlphaUnit <= (AlphaUnit - alpha) * divergence

FloatWithinAlpha ==
    FCmp(FloatOf(gap, DecisionUnit), AlphaShare(divergence, alpha)) <= 0

NothingToExtract ==
    /\ divergence = 0
    /\ min_threshold = 0
    /\ gap > 0
    /\ trade = "no"
    /\ extracted = "yes"

(***************************************************************************)
(* kl_divergence (profit.py).  Weights are counted in quarters; the result *)
(* is counted in quarter milli-nats, math.log rounded to three decimals.   *)
(***************************************************************************)
\* Largest weight explored, in quarters, and longest distribution.
MaxWeight == 4
MaxDist == 2

\* math.log of 1..6, in thousandths.
LogTable == <<0, 693, 1099, 1386, 1609, 1792>>

\* profit.py:44: math.log(m / t) for positive weights m and t.
LogRatio(m, t) == LogTable[m] - LogTable[t]

\* A current price of 0 under a positive target weight taken as no
\* divergence.
UndefinedAsZero == [kind |-> "value", v |-> 0]

\* profit.py:43: float("inf").
Undefined == [kind |-> "inf", v |-> 0]

\* profit.py:38-46: the loop of kl_divergence from index i on, the sum so
\* far being acc.
RECURSIVE KlFrom(_, _, _, _)
KlFrom(m, t, i, acc) ==
    IF i > Len(m) THEN [kind |-> "value", v |-> acc]
    ELSE IF m[i] <= 0 THEN KlFrom(m, t, i + 1, acc)
    ELSE IF t[i] <= 0 THEN Undefined
    ELSE KlFrom(m, t, i + 1, acc + m[i] * LogRatio(m[i], t[i]))

\* profit.py:24-46: kl_divergence; a length mismatch raises ValueError.
KlDivergence(m, t) ==
    IF Len(m) # Len(t) THEN [kind |-> "raised", v |-> 0]
    ELSE KlFrom(m, t, 1, 0)

\* The distributions of up to n weights.
Distributions(n) == UNION {[1..k -> 0..MaxWeight] : k \in 0..n}

\* kl_divergence is called.
CallKlDivergence ==
    /\ kl.kind = "pending"
    /\ kl' = KlDivergence(mu, theta)
    /\ UNCHANGED <<mu, theta>>
    /\ UNCHANGED notKlVars

KlInit ==
    /\ \E m \in Distributions(MaxDist), t \in Distributions(MaxDist) :
          KlStart(m, t)
    /\ ProgramStart
    /\ EvalIdle
    /\ DecisionIdle
    /\ NotifierIdle
    /\ StoreIdle

KlNext == CallKlDivergence

KlSpec == KlInit /\ [][KlNext]_vars

(***************************************************************************)
(* Claims about kl_divergence                                              *)
(***************************************************************************)
\* The sum of mu_i * ln(mu_i / theta_i) over the indices in S.
RECURSIVE TermSum(_)
TermSum(S) ==
    IF S = {} THEN 0
    ELSE LET i == CHOOSE j \in S : TRUE
         IN  mu[i] * LogRatio(mu[i], theta[i]) + TermSum(S \ {i})

\* C26: kl_divergence(mu, theta) is +infinity whenever some index has
\* mu_i > 0 and theta_i = 0; an index with mu_i = 0 contributes 0 whatever
\* theta_i is (the result is the sum over the indices with mu_i > 0 alone);
\* the divergence of two identical distributions is 0.
C26_KlDivergence ==
    (kl.kind # "pending" /\ Len(mu) = Len(theta)) =>
        /\ (\E i \in 1..Len(mu) : mu[i] > 0 /\ theta[i] = 0) => kl.kind = "inf"
        /\ (kl.kind = "value") =>
              kl.v = TermSum({i \in 1..Len(mu) : mu[i] > 0})
        /\ (\A i \in 1..Len(mu) : mu[i] = 0 \/ theta[i] > 0) => kl.kind = "value"
        /\ (mu = theta) => (kl.kind = "value" /\ kl.v = 0)

\* A target weight on an outcome priced 0, after an outcome without target
\* weight priced 0.
C26_Witness ==
    /\ mu = <<0, 4>>
    /\ theta = <<0, 0>>
    /\ kl.kind = "inf"

(***************************************************************************)
(* Notifier.notify_arb and its per-market cooldown (notify.py).  The scan  *)
(* loop awaits one notify_arb call after the other (bot.py:200-223).       *)
(***************************************************************************)
\* Number of market ids notified about, largest cooldown setting, number of
\* notify_arb calls and number of clock ticks explored.
NumMarketIds == 2
MaxCooldown == 2
MaxCalls == 3
MaxElapsed == 3

MarketIds == 1..NumMarketIds

\* time.time() when the notifier is constructed: seconds since 1970, beyond
\* any cooldown setting.
Epoch == MaxCooldown + 1

\* notify.py:44: self._cooldowns.get(market_id, 0.0).
LastNotified(m) == IF m \in DOMAIN cooldowns THEN cooldowns[m] ELSE 0

\* A cooldown test that lets every call through.
IsCooledDownAlways(m) == TRUE

\* notify.py:42-45: _is_cooled_down.
IsCooledDown(m) == (wall - LastNotified(m)) >= cooldown

\* notify.py:47-48: _mark_sent.
MarkSent(m) ==
    [k \in DOMAIN cooldowns \cup {m} |-> IF k = m THEN wall ELSE cooldowns[k]]

\* One notify_arb call as the log keeps it.
Call(m, o) == [market |-> m, at |-> wall, outcome |-> o]

\* The clock advances.
ClockTick ==
    /\ wall < Epoch + MaxElapsed
    /\ wall' = wall + 1
    /\ UNCHANGED <<npc, on_arb, webhook, cooldown, cooldowns, market_id, calls>>
    /\ UNCHANGED notNotifyVars

\* notify.py:90-104: notify_arb(m) up to the await of _send_embed: it
\* returns at once when on_arb is off or the market is not cooled down.
NotifyArb(m) ==
    /\ npc = "idle"
    /\ Len(calls) < MaxCalls
    /\ IF ~on_arb
       THEN /\ calls' = Append(calls, Call(m, "disabled"))
            /\ UNCHANGED <<npc, market_id>>
       ELSE IF ~IsCooledDown(m)
       THEN /\ calls' = Append(calls, Call(m, "suppressed"))
            /\ UNCHANGED <<npc, market_id>>
       ELSE /\ calls' = Append(calls, Call(m, "passed"))
            /\ npc' = "sending"
            /\ market_id' = m
    /\ UNCHANGED <<on_arb, webhook, cooldown, wall, cooldowns>>
    /\ UNCHANGED notNotifyVars

\* notify.py:50-78, 114: _send_embed returns (it posts when a webhook is
\* configured and swallows a failure of the post), then _mark_sent.
EmbedSent ==
    /\ npc = "sending"
    /\ calls' = [calls EXCEPT ![Len(calls)].outcome =
                    IF webhook THEN "posted" ELSE "not_enabled"]
    /\ cooldowns' = MarkSent(market_id)
    /\ npc' = "idle"
    /\ UNCHANGED <<on_arb, webhook, cooldown, wall, market_id>>
    /\ UNCHANGED notNotifyVars

NotifyInit ==
    /\ \E oa \in BOOLEAN, hook \in BOOLEAN, cd \in 0..MaxCooldown :
          NotifierStart(oa, hook, cd, Epoch)
    /\ ProgramStart
    /\ EvalIdle
    /\ DecisionIdle
    /\ KlIdle
    /\ StoreIdle

NotifyNext ==
    \/ ClockTick
    \/ \E m \in MarketIds : NotifyArb(m)
    \/ EmbedSent

NotifySpec == NotifyInit /\ [][NotifyNext]_vars

(***************************************************************************)
(* Claims about the notifier                                               *)
(***************************************************************************)
\* The outcomes of a call that passed the cooldown test, and of one that
\* posted to the webhook.
PassedCheck == {"passed", "posted", "not_enabled"}
Sent == {"passed", "posted"}

\* C27: for each market id, once a notify_arb call has passed the cooldown
\* check, every later notify_arb call for that market within the cooldown
\* period sends nothing; a notification for one market never suppresses a
\* notification for another market (a call is suppressed only after a call
\* for its own market passed the check).
C27_PerMarketCooldown ==
    /\ \A i \in 1..Len(calls), j \in 1..Len(calls) :
          (/\ i < j
           /\ calls[i].market = calls[j].market
           /\ calls[i].outcome \in PassedCheck
           /\ calls[j].at - calls[i].at < cooldown)
             => calls[j].outcome \notin Sent
    /\ \A j \in 1..Len(calls) :
          (calls[j].outcome = "suppressed") =>
             \E i \in 1..(j - 1) : /\ calls[i].market = calls[j].market
                                   /\ calls[i].outcome \in PassedCheck

\* Market 1 is notified, then market 2, then market 1 again within the
\* cooldown: the third call is suppressed, the second is not.
C27_Witness ==
    /\ Len(calls) = 3
    /\ calls[1] = [market |-> 1, at |-> Epoch, outcome |-> "posted"]
    /\ calls[2].market = 2 /\ calls[2].outcome = "posted"
    /\ calls[3].market = 1 /\ calls[3].outcome = "suppressed"
    /\ calls[3].at - calls[1].at < cooldown

(***************************************************************************)
(* TradeStore: load and record (storage.py)                                *)
(***************************************************************************)
\* Largest max_memory setting, number of lines of the trades file at
\* construction, number of record() calls and number of trades ever
\* recorded or loaded that are explored.
MaxMemory == 2
MaxFile == 2
MaxRecords == 2
MaxJournal == 4

\* storage.py:16-23: a TradeRecord; id 0 is a trade written by an earlier
\* run.
Trade(k, c, pr) == [line |-> "record", id |-> k, total_cost |-> c, net_profit |-> pr]

\* The lines a trades file can hold besides a record:
\*  - a blank line: skipped (storage.py:91-93);
\*  - a line that is not JSON or an object that lacks a key: skipped
\*    (storage.py:101-102);
\*  - a JSON value that is not an object: from_dict raises TypeError at
\*    storage.py:96, which load() does not catch;
\*  - an object with every key whose total_cost is not a number: the record
\*    is appended (storage.py:97) and the += of storage.py:98 raises
\*    TypeError;
\*  - an object whose total_cost is a number and whose net_profit is not:
\*    the += of storage.py:99 raises TypeError;
\*  - a line with bytes that are not text: reading raises
\*    UnicodeDecodeError, a ValueError, which load() does not catch.
Blank == [line |-> "blank", id |-> 0, total_cost |-> 0, net_profit |-> 0]
Malformed == [line |-> "malformed", id |-> 0, total_cost |-> 0, net_profit |-> 0]
NotObject == [line |-> "not_object", id |-> 0, total_cost |-> 0, net_profit |-> 0]
BadCost == [line |-> "bad_cost", id |-> 0, total_cost |-> 0, net_profit |-> 1]
BadProfit == [line |-> "bad_profit", id |-> 0, total_cost |-> 1, net_profit |-> 0]
Undecodable == [line |-> "undecodable", id |-> 0, total_cost |-> 0, net_profit |-> 0]

\* The cost and profit of the trades explored.
TradeKinds == {<<1, 1>>, <<2, 0>>}

\* The lines a trades file holds at construction.
FileLines ==
    {Trade(0, 1, 1), Blank, Malformed, NotObject, BadCost, BadProfit,
     Undecodable}
Files == UNION {[1..k -> FileLines] : k \in 0..MaxFile}

\* How a trades file ends: it does not exist; it exists and is empty or its
\* last line ends with a newline; it exists and its last line has no final
\* newline.
FileEnds == {"absent", "newline", "cut"}

\* The file f can end as fe: a file that does not exist has no lines, and a
\* last line without its newline is a line.
EndsAs(f, fe) ==
    /\ (fe = "absent") => f = << >>
    /\ (fe = "cut") => f # << >>

\* storage.py:153-154: what open(path, "a") and f.write(json + "\n") make
\* of the file.  The text goes behind the last byte: a file that does not
\* exist is created, a file whose lines are terminated gains the record as
\* a line, and a last line without its newline is continued by the text:
\* a blank line becomes the record, a line with bytes that are not text
\* remains one, and any other line followed by the JSON object is no JSON.
Appended(f, fe, rec) ==
    IF fe # "cut" THEN Append(f, rec)
    ELSE [f EXCEPT ![Len(f)] =
              IF f[Len(f)] = Blank THEN rec
              ELSE IF f[Len(f)] = Undecodable THEN Undecodable
              ELSE Malformed]

\* A slice that keeps the newest n records whatever n is.
KeepNewestStrict(list, n) ==
    IF Len(list) > n THEN SubSeq(list, Len(list) - n + 1, Len(list)) ELSE list

\* storage.py:107-108, 140-141: if len(list) > n: list = list[-n:]; the
\* slice list[-0:] is the whole list.
KeepNewest(list, n) ==
    IF Len(list) > n
    THEN IF n = 0 THEN list ELSE SubSeq(list, Len(list) - n + 1, Len(list))
    ELSE list

\* The store's fields as the loop of load() changes them, and whether a
\* line raised.
Loaded(list, invested, profit, count, failed) ==
    [trades |-> list, total_invested |-> invested, total_profit |-> profit,
     trade_count |-> count, failed |-> failed]

\* storage.py:90-102: the loop of load() over the lines f[i..n]; a line
\* that raises ends it with what was assigned before.
RECURSIVE ReadLines(_, _, _, _)
ReadLines(f, i, n, s) ==
    IF i > n THEN s
    ELSE IF f[i].line \in {"blank", "malformed"} THEN ReadLines(f, i + 1, n, s)
    ELSE IF f[i].line = "not_object"
         THEN Loaded(s.trades, s.total_invested, s.total_profit,
                     s.trade_count, TRUE)
    ELSE IF f[i].line = "bad_cost"
         THEN Loaded(Append(s.trades, f[i]), s.total_invested,
                     s.total_profit, s.trade_count, TRUE)
    ELSE IF f[i].line = "bad_profit"
         THEN Loaded(Append(s.trades, f[i]),
                     s.total_invested + f[i].total_cost,
                     s.total_profit, s.trade_count, TRUE)
    ELSE ReadLines(f, i + 1, n,
                   Loaded(Append(s.trades, f[i]),
                          s.total_invested + f[i].total_cost,
                          s.total_profit + f[i].net_profit,
                          s.trade_count + 1, FALSE))

\* The lines before the first one that cannot be decoded: all of them when
\* every line is text.
DecodableLines(f) ==
    LET bad == {i \in 1..Len(f) : f[i] = Undecodable}
    IN  IF bad = {} THEN Len(f)
        ELSE (CHOOSE i \in bad : \A j \in bad : i <= j) - 1

RECURSIVE SumCost(_)
SumCost(list) ==
    IF list = << >> THEN 0 ELSE list[1].total_cost + SumCost(Tail(list))

RECURSIVE SumProfit(_)
SumProfit(list) ==
    IF list = << >> THEN 0 ELSE list[1].net_profit + SumProfit(Tail(list))

\* storage.py:79-113: load().  With storage disabled, or when the trades
\* file does not exist, the call returns at once: nothing is read and
\* nothing is trimmed (storage.py:81-86).  Otherwise the file is opened or
\* open() raises OSError, which is caught: nothing is read and the list is
\* trimmed (storage.py:103-108).  The file is decoded one block at a time,
\* so when a line cannot be decoded the loop has run over the lines of the
\* blocks before it, any number of the lines that precede it (none when
\* the file fits in one block), and UnicodeDecodeError ends the call.  A
\* call that a line or the reading ends by raising skips the trim.  A last
\* line without its newline is read as any other line.  The journal takes
\* the records the call appended to the in-memory list.
Load ==
    /\ Len(journal) + Len(trades_file) <= MaxJournal
    /\ IF ~storage_enabled \/ file_end = "absent"
       THEN UNCHANGED <<trades, total_invested, total_profit, trade_count,
                        journal>>
       ELSE \E opened \in BOOLEAN, n \in 0..(MaxFile + MaxRecords) :
          /\ n <= DecodableLines(trades_file)
          /\ (DecodableLines(trades_file) = Len(trades_file)) => n = Len(trades_file)
          /\ LET start == Loaded(trades, total_invested, total_profit,
                                 trade_count, FALSE)
                 read == IF opened THEN ReadLines(trades_file, 1, n, start)
                         ELSE start
                 raises == opened /\ (read.failed \/ n < Len(trades_file))
             IN  /\ trades' = IF raises THEN read.trades
                              ELSE KeepNewest(read.trades, max_memory)
                 /\ total_invested' = read.total_invested
                 /\ total_profit' = read.total_profit
                 /\ trade_count' = read.trade_count
                 /\ journal' = journal \o
                       SubSeq(read.trades, Len(trades) + 1, Len(read.trades))
    /\ UNCHANGED <<max_memory, storage_enabled, trades_file, file_end,
                   next_trade>>
    /\ UNCHANGED notStoreVars

\* storage.py:115-156: record(); with storage enabled the record is
\* appended to the file, or the append raises OSError, which is swallowed
\* and leaves the file as it was.
Record(c, pr) ==
    /\ next_trade <= MaxRecords
    /\ Len(journal) < MaxJournal
    /\ LET rec == Trade(next_trade, c, pr)
       IN  /\ trades' = KeepNewest(Append(trades, rec), max_memory)
           /\ journal' = Append(journal, rec)
           /\ \E written \in BOOLEAN :
                 IF storage_enabled /\ written
                 THEN /\ trades_file' = Appended(trades_file, file_end, rec)
                      /\ file_end' = "newline"
                 ELSE UNCHANGED <<trades_file, file_end>>
    /\ total_invested' = total_invested + c
    /\ total_profit' = total_profit + pr
    /\ trade_count' = trade_count + 1
    /\ next_trade' = next_trade + 1
    /\ UNCHANGED <<max_memory, storage_enabled>>
    /\ UNCHANGED notStoreVars

StoreInit ==
    /\ \E en \in BOOLEAN, mm \in 0..MaxMemory, f \in Files, fe \in FileEnds :
          EndsAs(f, fe) /\ StoreStart(en, mm, f, fe)
    /\ ProgramStart
    /\ EvalIdle
    /\ DecisionIdle
    /\ KlIdle
    /\ NotifierIdle

StoreNext ==
    \/ Load
    \/ \E k \in TradeKinds : Record(k[1], k[2])

StoreSpec == StoreInit /\ [][StoreNext]_vars

(***************************************************************************)
(* Claims about the trade store                                            *)
(***************************************************************************)
\* C28: after any sequence of record() and load() calls, for any
\* max_memory >= 0, the in-memory trade list holds at most max_memory
\* records, namely the most recent ones in recording order, while
\* trade_count, total_invested and total_profit cover every trade ever
\* recorded or loaded.
C28_MemoryCapAndTotals ==
    /\ Len(trades) <= max_memory
    /\ trades = KeepNewestStrict(journal, max_memory)
    /\ trade_count = Len(journal)
    /\ total_invested = SumCost(journal)
    /\ total_profit = SumProfit(journal)
====
